---- MODULE Spec2Model ----
(***************************************************************************)
(* A model of the sandboxed SDK (pkg/sdk), its Kubernetes client wrapper   *)
(* (pkg/k8sclient), the language table (pkg/k8sclient/templates) and the   *)
(* MCP tool server with its sandbox registry (pkg/mcp).                    *)
(*                                                                         *)
(* Shell commands are modelled as tuples of words, the cluster as a map    *)
(* from <<namespace, pod name>> to a pod, and goroutines as processes with *)
(* a program counter.  Every call to the cluster is one atomic step.       *)
(***************************************************************************)
EXTENDS Integers, Sequences, FiniteSets, TLC

VARIABLES
    pods,       \* the cluster: <<namespace, name>> -> pod
    sandboxes,  \* SandboxManager.sandboxes: name -> handle
    mu,         \* SandboxManager.mu: [writer, readers]
    pc,         \* per process: where it is
    op,         \* per process: the top-level call in progress
    arg,        \* per process: the arguments of that call
    hnd,        \* per process: the handle an SDK caller holds
    loc,        \* per process: locals of the call in progress
    wait,       \* per process: locals of WaitForPodReady
    ret,        \* per process: what the last finished call returned
    trace,      \* per process: cluster requests issued by the call in progress
    destroyed,  \* SDK callers whose handle an earlier Destroy of theirs destroyed
    calls,      \* log of the language-resolver calls made
    added,      \* names whose last registry mutation was an AddSandbox
    k8sClient   \* the REST server's client: not started, nil, or a client

obs == <<calls, added, k8sClient>>
vars == <<pods, sandboxes, mu, pc, op, arg, hnd, loc, wait, ret, trace, destroyed, calls, added,
          k8sClient>>

-----------------------------------------------------------------------------
(* Bounds and input sets *)

MaxPolls == 2       \* polls of one WaitForPodReady that are followed by a sleep
MaxCalls == 2       \* length of the call log of a specification that keeps one
MaxOpts == 2        \* options given to one CreateSandbox
MaxReads == 2       \* reads that bring bytes from one log stream

Procs == {"p1", "p2"}
SdkProcs == {"p1"}
None == "none"

Names == {"a", "b"}
SdkNames == {"a"}
SdkBodies == {"b1"}

\* DefaultNamespace: the fallback of CreateSandbox/Run/Exec/Destroy and of NewClient
DefaultNamespace == "default"

-----------------------------------------------------------------------------
(* Errors are the fragments of their message, outermost first; nil is <<>>. *)

Nil == <<>>
Err(msg) == <<msg>>
Wrap(prefix, e) == <<prefix>> \o e
\* The innermost error of a chain of wrapped errors.
Cause(e) == IF e = Nil THEN "nil" ELSE e[Len(e)]

RECURSIVE ErrorText(_)
\* err.Error(): each fmt.Errorf("prefix: %v", err) puts its prefix and ": " in front
ErrorText(e) ==
    IF e = Nil THEN ""
    ELSE IF Len(e) = 1 THEN e[1]
    ELSE e[1] \o ": " \o ErrorText(Tail(e))

RECURSIVE Text(_)
\* The content of a buffer as one string.
Text(o) == IF o = <<>> THEN "" ELSE o[1] \o Text(Tail(o))

(* pkg/k8sclient/templates: the language table *)

Languages == [go |-> "golang:1.24", python |-> "python:3.9", node |-> "node:14",
              java |-> "openjdk:11", ruby |-> "ruby:2.7", php |-> "php:8.0",
              rust |-> "rust:1.56"]

\* The same table with one row lost.
LanguageLookupNoRust(lang) ==
    IF lang \in (DOMAIN Languages) \ {"rust"}
    THEN [image |-> Languages[lang], err |-> Nil]
    ELSE [image |-> "", err |-> Err("unsupported language: " \o lang)]

LanguageLookup(lang) ==
    IF lang \in DOMAIN Languages
    THEN [image |-> Languages[lang], err |-> Nil]
    ELSE [image |-> "", err |-> Err("unsupported language: " \o lang)]

(* pkg/sdk: Language *)

DockerImage(l) == LanguageLookup(l)

IsValid(l) == LanguageLookup(l).err = Nil

ToLanguage(lang) ==
    IF LanguageLookup(lang).err # Nil
    THEN [lang |-> "", err |-> LanguageLookup(lang).err]
    ELSE [lang |-> lang, err |-> Nil]

\* The command line of the interpreter, split into words.
GetExecScript(l) ==
    CASE l = "python" -> <<"python3", "/tmp/exec_script.sh">>
      [] l = "go"     -> <<"go", "run", "/tmp/exec_script.go">>
      [] l = "node"   -> <<"node", "/tmp/exec_script.js">>
      [] l = "java"   -> <<"javac", "/tmp/ExecScript.java", "&&", "java", "-cp", "/tmp", "ExecScript">>
      [] l = "ruby"   -> <<"ruby", "/tmp/exec_script.rb">>
      [] l = "php"    -> <<"php", "/tmp/exec_script.php">>
      [] l = "rust"   -> <<"rustc", "/tmp/exec_script.rs", "-o", "/tmp/exec_script", "&&", "/tmp/exec_script">>
      [] OTHER        -> <<>>

-----------------------------------------------------------------------------
(* pkg/sdk: SandboxOption.  Value is a string (str) or a label map (map). *)

NoLabels == [k \in {} |-> ""]
StrOpt(name, s) == [Name |-> name, type |-> "string", str |-> s, map |-> NoLabels]
MapOpt(name, m) == [Name |-> name, type |-> "map", str |-> "", map |-> m]

\* mapOptions[opt.Name] = opt.Value over opts in order: the last one wins.
MapOptions(opts) ==
    [n \in {opts[i].Name : i \in DOMAIN opts} |->
        LET last == CHOOSE i \in DOMAIN opts :
                        /\ opts[i].Name = n
                        /\ \A j \in DOMAIN opts : opts[j].Name = n => j <= i
        IN opts[last]]

\* Only the first option looked at.
NamespaceOfFirstOption(opts) ==
    IF opts # <<>> /\ opts[1].Name = "namespace" /\ opts[1].type = "string"
    THEN opts[1].str
    ELSE DefaultNamespace

\* ns, ok := mapOptions["namespace"].(string); default when !ok
NamespaceOf(opts) ==
    LET m == MapOptions(opts) IN
    IF "namespace" \in DOMAIN m /\ m["namespace"].type = "string"
    THEN m["namespace"].str
    ELSE DefaultNamespace

SetLabel(m, k, v) == [x \in (DOMAIN m) \cup {k} |-> IF x = k THEN v ELSE m[x]]

\* pod.Labels of CreateSandbox: the labels option marked created-by, or an empty map
SdkLabels(opts) ==
    LET m == MapOptions(opts) IN
    IF "labels" \in DOMAIN m /\ m["labels"].type = "map"
    THEN SetLabel(m["labels"].map, "created-by", "sandboxed-sdk")
    ELSE NoLabels

\* One pod name for every sandbox.
PodNameShared(name) == "sandboxed-"

\* podName := "sandboxed-" + name
PodName(name) == "sandboxed-" \o name

(* A handle: sandboxedImpl with its LanguageContainer. *)

Handle(name, language, image, opts, id) ==
    [name |-> name, language |-> language, image |-> image, opts |-> opts, id |-> id]
NoHandle == Handle("", "", "", <<>>, "")

-----------------------------------------------------------------------------
(* The cluster behind the client: pods, their conditions and their shell. *)

Cond(t, s) == [type |-> t, status |-> s]

\* pod.Status.Conditions as the cluster reports them for each stage of a pod
Conditions(status) ==
    CASE status = "Pending"  -> <<Cond("PodScheduled", "True")>>
      [] status = "NotReady" -> <<Cond("PodScheduled", "True"), Cond("Initialized", "True"),
                                  Cond("ContainersReady", "False"), Cond("Ready", "False")>>
      [] status = "Ready"    -> <<Cond("PodScheduled", "True"), Cond("Initialized", "True"),
                                  Cond("ContainersReady", "True"), Cond("Ready", "True")>>
      [] OTHER               -> <<>>

NoFiles == [f \in {} |-> [body |-> "", exec |-> FALSE]]

Paths == {"/tmp/exec_script.sh", "/tmp/exec_script.go", "/tmp/exec_script.js",
          "/tmp/ExecScript.java", "/tmp/exec_script.rb", "/tmp/exec_script.php",
          "/tmp/exec_script.rs"}

\* The file a command line names: its first word that is a script path.
FileArg(words) ==
    LET at == {i \in DOMAIN words : words[i] \in Paths} IN
    IF at = {} THEN ""
    ELSE words[CHOOSE i \in at : \A j \in at : i <= j]

\* sh -c <words> inside a pod with the given files: exit status, output, files after.
Shell(files, words) ==
    CASE words # <<>> /\ words[1] = "cat" ->
            \* cat > file << 'EOF' \n body \n EOF
            [exit |-> 0, out |-> <<>>,
             files |-> [f \in (DOMAIN files) \cup {words[3]} |->
                          IF f = words[3] THEN [body |-> words[5], exec |-> FALSE]
                          ELSE files[f]]]
      [] words # <<>> /\ words[1] = "chmod" ->
            IF words[3] \in DOMAIN files
            THEN [exit |-> 0, out |-> <<>>,
                  files |-> [files EXCEPT ![words[3]].exec = TRUE]]
            ELSE [exit |-> 1, out |-> <<"No such file">>, files |-> files]
      [] words # <<>> /\ words[1] = "true" ->
            [exit |-> 0, out |-> <<"ok">>, files |-> files]
      [] Len(words) = 3 /\ words[1] = "sh" /\ words[2] = "-c" /\ words[3] \notin Paths ->
            \* an inline script: true succeeds, anything else fails
            IF words[3] = "true"
            THEN [exit |-> 0, out |-> <<"ok">>, files |-> files]
            ELSE [exit |-> 1, out |-> <<"failed">>, files |-> files]
      [] words # <<>> /\ FileArg(words) # "" ->
            \* an interpreter or compiler reading its source file
            IF FileArg(words) \in DOMAIN files
            THEN [exit |-> 0, out |-> <<"ran", files[FileArg(words)].body>>, files |-> files]
            ELSE [exit |-> 1, out |-> <<"No such file">>, files |-> files]
      [] OTHER ->
            [exit |-> 1, out |-> <<"failed">>, files |-> files]

Key(ns, name) == <<ns, name>>

\* The messages of the API server's errors and of a command's exit status.
AlreadyExists(name) == "pods \"" \o name \o "\" already exists"
NotFound(name) == "pods \"" \o name \o "\" not found"
ExitCode(n) == "command terminated with exit code " \o ToString(n)

\* Pods(ns).Create
ApiCreate(ps, key, pod, fault) ==
    IF fault THEN [pods |-> ps, err |-> Err("ServerError")]
    ELSE IF key \in DOMAIN ps THEN [pods |-> ps, err |-> Err(AlreadyExists(key[2]))]
    ELSE [pods |-> [k \in (DOMAIN ps) \cup {key} |-> IF k = key THEN pod ELSE ps[k]],
          err |-> Nil]

\* Pods(ns).Delete
ApiDelete(ps, key, fault) ==
    IF fault THEN [pods |-> ps, err |-> Err("ServerError")]
    ELSE IF key \notin DOMAIN ps THEN [pods |-> ps, err |-> Err(NotFound(key[2]))]
    ELSE [pods |-> [k \in (DOMAIN ps) \ {key} |-> ps[k]], err |-> Nil]

\* Pods(ns).Get
ApiGet(ps, key, fault) ==
    IF fault THEN [conds |-> <<>>, err |-> Err("ServerError")]
    ELSE IF key \notin DOMAIN ps THEN [conds |-> <<>>, err |-> Err(NotFound(key[2]))]
    ELSE [conds |-> Conditions(ps[key].status), err |-> Nil]

\* The exec subresource streamed over SPDY: a command that exits non-zero, a pod
\* that is missing or not running and a broken stream all end Stream with an error.
ApiExec(ps, key, words, fault) ==
    IF key \notin DOMAIN ps
    THEN [pods |-> ps, out |-> <<>>, errout |-> <<>>, err |-> Err(NotFound(key[2]))]
    ELSE IF ps[key].status # "Ready"
    THEN [pods |-> ps, out |-> <<>>, errout |-> <<>>, err |-> Err("ContainerNotRunning")]
    ELSE LET r == Shell(ps[key].files, words)
             after == [ps EXCEPT ![key].files = r.files] IN
         IF fault
         THEN [pods |-> after, out |-> r.out, errout |-> <<>>, err |-> Err("StreamBroken")]
         ELSE IF r.exit # 0
         THEN [pods |-> after, out |-> r.out, errout |-> <<>>, err |-> Err(ExitCode(r.exit))]
         ELSE [pods |-> after, out |-> r.out, errout |-> <<>>, err |-> Nil]

-----------------------------------------------------------------------------
(* pkg/k8sclient: Client.  A client is known by its default namespace c.    *)

PollInterval == 2
ReadyTimeout == 120

\* What NewClient can meet: a usable config, no kubeconfig and no in-cluster
\* config, a config that NewForConfig rejects.
ClientFaults == {"none", "config", "clientset"}

NewClient(namespace, fault) ==
    CASE fault = "config" ->
            [c |-> "", err |-> Wrap("failed to create kubernetes config", Err("NoConfig"))]
      [] fault = "clientset" ->
            [c |-> "", err |-> Wrap("failed to create kubernetes client", Err("BadConfig"))]
      [] OTHER ->
            [c |-> IF namespace = "" THEN DefaultNamespace ELSE namespace, err |-> Nil]

NsOr(namespace, c) == IF namespace = "" THEN c ELSE namespace

NewPod(spec, labels) ==
    [status |-> "Pending", labels |-> labels, image |-> spec.Image,
     command |-> spec.Command, files |-> NoFiles]

CreatePod(ps, c, spec, fault) ==
    LET ns == NsOr(spec.Namespace, c)
        labels == SetLabel(SetLabel(spec.Labels, "app", spec.Name),
                           "created-by", "sandboxed-cli")
        r == ApiCreate(ps, Key(ns, spec.Name), NewPod(spec, labels), fault)
    IN [pods |-> r.pods, key |-> Key(ns, spec.Name),
        err |-> IF r.err # Nil THEN Wrap("failed to create pod", r.err) ELSE Nil]

\* force only changes the grace period and the propagation policy of the request
DeletePodWithOptions(ps, c, name, namespace, force, fault) ==
    LET r == ApiDelete(ps, Key(NsOr(namespace, c), name), fault)
    IN [pods |-> r.pods, key |-> Key(NsOr(namespace, c), name),
        err |-> IF r.err # Nil
                THEN Wrap("failed to delete pod " \o name \o " in namespace " \o
                          NsOr(namespace, c), r.err)
                ELSE Nil]

ForceDeletePod(ps, c, name, namespace, fault) ==
    DeletePodWithOptions(ps, c, name, namespace, TRUE, fault)

DeletePod(ps, c, name, namespace, fault) ==
    DeletePodWithOptions(ps, c, name, namespace, FALSE, fault)

GetPod(ps, c, name, namespace, fault) ==
    LET r == ApiGet(ps, Key(NsOr(namespace, c), name), fault)
    IN [conds |-> r.conds,
        err |-> IF r.err # Nil
                THEN Wrap("failed to get pod " \o name \o " in namespace " \o
                          NsOr(namespace, c), r.err)
                ELSE Nil]

\* Any condition with status True counts.
PodIsReadyAnyTrue(conds) ==
    \E i \in DOMAIN conds : conds[i].status = "True"

\* The loop over pod.Status.Conditions of WaitForPodReady
PodIsReady(conds) ==
    \E i \in DOMAIN conds : conds[i].type = "Ready" /\ conds[i].status = "True"

\* What can go wrong on the client's side of an exec: nothing, NewSPDYExecutor
\* refusing the config, the stream breaking.
ExecFaults == {"none", "executor", "stream"}

ExecInPod(ps, c, podName, namespace, words, fault) ==
    IF fault = "executor"
    THEN [pods |-> ps, out |-> <<>>, errout |-> <<>>,
          err |-> Wrap("failed to create executor", Err("BadConfig"))]
    ELSE LET r == ApiExec(ps, Key(NsOr(namespace, c), podName), words, fault = "stream")
         IN [pods |-> r.pods, out |-> r.out, errout |-> r.errout,
             err |-> IF r.err # Nil
                     THEN Wrap("failed to execute command in pod", r.err) ELSE Nil]

\* fmt.Errorf("exec failed: %v, stderr: %s", err, stderr.String())
ExecFailed(err, errout) ==
    Wrap("exec failed", [err EXCEPT ![Len(err)] = @ \o ", stderr: " \o Text(errout)])

\* The pod deleted once the command has run.
ExecCommandThenDelete(ps, c, podName, namespace, words, fault) ==
    LET r == ExecInPod(ps, c, podName, namespace, words, fault)
        after == DeletePodWithOptions(r.pods, c, podName, namespace, FALSE, FALSE).pods
    IN IF r.err # Nil
       THEN [pods |-> r.pods, out |-> <<>>, err |-> ExecFailed(r.err, r.errout)]
       ELSE [pods |-> after, out |-> r.out, err |-> Nil]

\* The stdout buffer returned along with the error.
ExecOutputKeepPartial(r) ==
    IF r.err # Nil
    THEN [out |-> r.out, err |-> ExecFailed(r.err, r.errout)]
    ELSE [out |-> r.out, err |-> Nil]

\* What ExecCommand returns for what ExecInPod left in the buffers and returned:
\* "exec failed: <err>, stderr: <stderr>" and no output, or stdout.String()
ExecOutput(r) ==
    IF r.err # Nil
    THEN [out |-> <<>>, err |-> ExecFailed(r.err, r.errout)]
    ELSE [out |-> r.out, err |-> Nil]

ExecCommand(ps, c, podName, namespace, words, fault) ==
    LET r == ExecInPod(ps, c, podName, namespace, words, fault)
    IN [pods |-> r.pods, out |-> ExecOutput(r).out, err |-> ExecOutput(r).err]

-----------------------------------------------------------------------------
(* Processes *)

NoArg == [name |-> "", lang |-> "", opts |-> <<>>, code |-> <<>>, body |-> "",
          ns |-> "", timeout |-> 0, env |-> "", labels |-> NoLabels, force |-> FALSE]
NoLoc == [m |-> "", h |-> NoHandle, found |-> FALSE, names |-> <<>>, ns |-> "",
          pod |-> "", cmds |-> <<>>, cleanup |-> FALSE, results |-> <<>>, err |-> Nil,
          labels |-> NoLabels]
NoWait == [timeout |-> 0, elapsed |-> 0, polls |-> 0, seen |-> <<>>, got |-> FALSE,
           err |-> Nil]
NoRet == [err |-> Nil, out |-> <<>>, h |-> NoHandle, found |-> FALSE,
          success |-> FALSE, msg |-> "", names |-> <<>>, again |-> FALSE,
          res |-> <<>>, lang |-> "", status |-> 0, id |-> "", results |-> <<>>, count |-> 0]

Req(call, key, words, err) == [call |-> call, key |-> key, words |-> words, err |-> err]

Init ==
    /\ pods = [k \in {} |-> NewPod([Image |-> "", Command |-> <<>>], NoLabels)]
    /\ sandboxes = [n \in {} |-> NoHandle]
    /\ mu = [writer |-> None, readers |-> {}]
    /\ pc = [p \in Procs |-> "idle"]
    /\ op = [p \in Procs |-> ""]
    /\ arg = [p \in Procs |-> NoArg]
    /\ hnd = [p \in Procs |-> NoHandle]
    /\ loc = [p \in Procs |-> NoLoc]
    /\ wait = [p \in Procs |-> NoWait]
    /\ ret = [p \in Procs |-> NoRet]
    /\ trace = [p \in Procs |-> <<>>]
    /\ destroyed = {}
    /\ calls = <<>>
    /\ added = {}
    /\ k8sClient = [started |-> FALSE, nil |-> TRUE, c |-> ""]

\* A call starts: its arguments, fresh locals, an empty request log.
Begin(p, o, a, at) ==
    /\ pc[p] = "idle"
    /\ op' = [op EXCEPT ![p] = o]
    /\ arg' = [arg EXCEPT ![p] = a]
    /\ pc' = [pc EXCEPT ![p] = at]
    /\ loc' = [loc EXCEPT ![p] = NoLoc]
    /\ wait' = [wait EXCEPT ![p] = NoWait]
    /\ ret' = [ret EXCEPT ![p] = NoRet]
    /\ trace' = [trace EXCEPT ![p] = <<>>]

\* Where an SDK function returns to: its caller is the SDK user or a tool handler.
AfterSdk(o) ==
    CASE o = "create_sandbox"  -> "mc_created"
      [] o = "run_code"        -> "mc_ran"
      [] o = "destroy_sandbox" -> "mc_destroyed"
      [] OTHER                 -> "idle"

\* Where WaitForPodReady returns to.
AfterWait(o) ==
    CASE o = "WaitForPodReady"      -> "idle"
      [] o = "createSandboxHandler" -> "rc_ready"
      [] o \in {"CreateAndRunPod", "executeCode"} -> "carp_ready"
      [] o = "Code"                 -> "os_ready"
      [] OTHER                      -> "cs_ready"

\* The kubelet brings a pod up: Pending, then NotReady, then Ready.
PodProgress ==
    /\ \E k \in DOMAIN pods :
          /\ pods[k].status \in {"Pending", "NotReady"}
          /\ pods' = [pods EXCEPT ![k].status =
                        IF pods[k].status = "Pending" THEN "NotReady" ELSE "Ready"]
    /\ UNCHANGED <<sandboxes, mu, pc, op, arg, hnd, loc, wait, ret, trace, destroyed, obs>>

-----------------------------------------------------------------------------
(* Client.WaitForPodReady(name, namespace, timeout), name and namespace in   *)
(* loc[p].pod and loc[p].ns.  wait[p].elapsed is the time since the context  *)
(* was made; it stops counting once past deadline + PollInterval.            *)

\* "timeout waiting for pod %s to be ready"
TimeoutMessage(name) == "timeout waiting for pod " \o name \o " to be ready"

Late(timeout) == timeout + PollInterval + 1
Clock(t, timeout) == IF t > Late(timeout) THEN Late(timeout) ELSE t

\* A status fetch answers at once or only after as long as the whole timeout.
FetchDelays(timeout) == {0, timeout}

\* select: ctx.Done() first, else the default branch
WaitCheck(p) ==
    /\ pc[p] = "w_check"
    /\ IF wait[p].elapsed >= wait[p].timeout
       THEN /\ wait' = [wait EXCEPT ![p].err = Err(TimeoutMessage(loc[p].pod))]
            /\ pc' = [pc EXCEPT ![p] = AfterWait(op[p])]
       ELSE /\ pc' = [pc EXCEPT ![p] = "w_get"]
            /\ UNCHANGED wait
    /\ UNCHANGED <<pods, sandboxes, mu, op, arg, hnd, loc, ret, trace, destroyed, obs>>

\* A failed fetch treated like a pod that is not ready yet: sleep and poll again.
WaitFetchRetry(p) ==
    /\ pc[p] = "w_get"
    /\ \E fault \in BOOLEAN, d \in FetchDelays(wait[p].timeout) :
         LET r == GetPod(pods, DefaultNamespace, loc[p].pod, loc[p].ns, fault)
             t == Clock(wait[p].elapsed + d, wait[p].timeout)
         IN IF r.err = Nil /\ PodIsReady(r.conds)
            THEN /\ wait' = [wait EXCEPT ![p].elapsed = t, ![p].seen = r.conds,
                                         ![p].got = TRUE, ![p].err = Nil]
                 /\ pc' = [pc EXCEPT ![p] = AfterWait(op[p])]
            ELSE /\ wait' = [wait EXCEPT ![p].elapsed = t, ![p].seen = r.conds,
                                         ![p].got = r.err = Nil]
                 /\ pc' = [pc EXCEPT ![p] = "w_sleep"]
    /\ UNCHANGED <<pods, sandboxes, mu, op, arg, hnd, loc, ret, trace, destroyed, obs>>

\* default: GetPod, then the conditions
WaitFetch(p) ==
    /\ pc[p] = "w_get"
    /\ \E fault \in BOOLEAN, d \in FetchDelays(wait[p].timeout) :
         LET r == GetPod(pods, DefaultNamespace, loc[p].pod, loc[p].ns, fault)
             t == Clock(wait[p].elapsed + d, wait[p].timeout)
         IN IF r.err # Nil
            THEN /\ wait' = [wait EXCEPT ![p].elapsed = t, ![p].err = r.err]
                 /\ pc' = [pc EXCEPT ![p] = AfterWait(op[p])]
            ELSE IF PodIsReady(r.conds)
            THEN /\ wait' = [wait EXCEPT ![p].elapsed = t, ![p].seen = r.conds,
                                         ![p].got = TRUE, ![p].err = Nil]
                 /\ pc' = [pc EXCEPT ![p] = AfterWait(op[p])]
            ELSE /\ wait' = [wait EXCEPT ![p].elapsed = t, ![p].seen = r.conds,
                                         ![p].got = TRUE]
                 /\ pc' = [pc EXCEPT ![p] = "w_sleep"]
    /\ UNCHANGED <<pods, sandboxes, mu, op, arg, hnd, loc, ret, trace, destroyed, obs>>

\* time.Sleep(2 * time.Second)
WaitSleep(p) ==
    /\ pc[p] = "w_sleep"
    /\ wait[p].polls < MaxPolls
    /\ wait' = [wait EXCEPT ![p].elapsed = Clock(@ + PollInterval, wait[p].timeout),
                            ![p].polls = @ + 1]
    /\ pc' = [pc EXCEPT ![p] = "w_check"]
    /\ UNCHANGED <<pods, sandboxes, mu, op, arg, hnd, loc, ret, trace, destroyed, obs>>

-----------------------------------------------------------------------------
(* Direct callers of the client (the REST server's pod handlers use it so). *)

ClientProcs == {"p1", "p2"}
ClientPods == {"sandboxed-a"}
ClientNamespaces == {"", "default"}
Timeouts == {1, 3, 4}

PodSpec(name, namespace, image, labels) ==
    [Name |-> name, Namespace |-> namespace, Image |-> image,
     Command |-> <<"sh", "-c", "tail -f /dev/null">>, Labels |-> labels]

ClientCreatePod(p) ==
    /\ \E n \in ClientPods, ns \in ClientNamespaces :
          Begin(p, "CreatePod", [NoArg EXCEPT !.name = n, !.ns = ns], "cp_create")
    /\ UNCHANGED <<pods, sandboxes, mu, hnd, destroyed, obs>>

ClientCreatePodStep(p) ==
    /\ pc[p] = "cp_create"
    /\ \E fault \in BOOLEAN :
         LET r == CreatePod(pods, DefaultNamespace,
                            PodSpec(arg[p].name, arg[p].ns, "python:3.9", NoLabels), fault)
         IN /\ pods' = r.pods
            /\ trace' = [trace EXCEPT ![p] = Append(@, Req("CreatePod", r.key, <<>>, r.err))]
            /\ ret' = [ret EXCEPT ![p].err = r.err]
    /\ pc' = [pc EXCEPT ![p] = "idle"]
    /\ UNCHANGED <<sandboxes, mu, op, arg, hnd, loc, wait, destroyed, obs>>

ClientDeletePod(p) ==
    /\ \E n \in ClientPods, ns \in ClientNamespaces :
          Begin(p, "DeletePod", [NoArg EXCEPT !.name = n, !.ns = ns], "dp_delete")
    /\ UNCHANGED <<pods, sandboxes, mu, hnd, destroyed, obs>>

ClientDeletePodStep(p) ==
    /\ pc[p] = "dp_delete"
    /\ \E fault \in BOOLEAN :
         LET r == DeletePodWithOptions(pods, DefaultNamespace, arg[p].name, arg[p].ns,
                                       FALSE, fault)
         IN /\ pods' = r.pods
            /\ trace' = [trace EXCEPT ![p] = Append(@, Req("DeletePod", r.key, <<>>, r.err))]
            /\ ret' = [ret EXCEPT ![p].err = r.err]
    /\ pc' = [pc EXCEPT ![p] = "idle"]
    /\ UNCHANGED <<sandboxes, mu, op, arg, hnd, loc, wait, destroyed, obs>>

\* WaitForPodReady(name, namespace, timeout): context.WithTimeout, then the loop
ClientWaitForPodReady(p) ==
    /\ pc[p] = "idle"
    /\ \E n \in ClientPods, ns \in ClientNamespaces, t \in Timeouts :
          /\ op' = [op EXCEPT ![p] = "WaitForPodReady"]
          /\ arg' = [arg EXCEPT ![p] = [NoArg EXCEPT !.name = n, !.ns = ns, !.timeout = t]]
          /\ loc' = [loc EXCEPT ![p] = [NoLoc EXCEPT !.pod = n, !.ns = ns]]
          /\ wait' = [wait EXCEPT ![p] = [NoWait EXCEPT !.timeout = t]]
    /\ pc' = [pc EXCEPT ![p] = "w_check"]
    /\ ret' = [ret EXCEPT ![p] = NoRet]
    /\ trace' = [trace EXCEPT ![p] = <<>>]
    /\ UNCHANGED <<pods, sandboxes, mu, hnd, destroyed, obs>>

-----------------------------------------------------------------------------
(* pkg/sdk: CreateSandbox and the methods of sandboxedImpl.  The handle the  *)
(* methods work on is loc[p].h.                                              *)

SdkLangs == {"python", "go", "java", "cobol"}
SdkOpts == {<<>>, <<StrOpt("namespace", "ns1")>>}
Codes == {<<"true">>, <<"false">>}

\* The lookup error dropped: the sandbox is made with whatever image came back.
CreateLookupIgnoreErr(p) ==
    /\ pc[p] = "cs_lookup"
    /\ LET r == LanguageLookup(arg[p].lang) IN
          /\ loc' = [loc EXCEPT ![p].h = Handle(arg[p].name, arg[p].lang, r.image,
                                                arg[p].opts, ""),
                                ![p].ns = NamespaceOf(arg[p].opts),
                                ![p].pod = PodName(arg[p].name)]
          /\ pc' = [pc EXCEPT ![p] = "cs_create"]
          /\ UNCHANGED ret
    /\ UNCHANGED <<pods, sandboxes, mu, op, arg, hnd, wait, trace, destroyed, obs>>

\* CreateSandbox up to the client: the image, the LanguageContainer, the namespace
CreateLookup(p) ==
    /\ pc[p] = "cs_lookup"
    /\ LET r == LanguageLookup(arg[p].lang) IN
       IF r.err # Nil
       THEN /\ ret' = [ret EXCEPT ![p] = [NoRet EXCEPT !.err = r.err]]
            /\ pc' = [pc EXCEPT ![p] = AfterSdk(op[p])]
            /\ UNCHANGED loc
       ELSE /\ loc' = [loc EXCEPT ![p].h = Handle(arg[p].name, arg[p].lang, r.image,
                                                  arg[p].opts, ""),
                                  ![p].ns = NamespaceOf(arg[p].opts),
                                  ![p].pod = PodName(arg[p].name)]
            /\ pc' = [pc EXCEPT ![p] = "cs_create"]
            /\ UNCHANGED ret
    /\ UNCHANGED <<pods, sandboxes, mu, op, arg, hnd, wait, trace, destroyed, obs>>

\* NewClient(namespace), client.CreatePod(pod), then
\* WaitForPodReady(podName, pod.Namespace, 120s) starts
CreateSubmit(p) ==
    /\ pc[p] = "cs_create"
    /\ \E cf \in ClientFaults, fault \in BOOLEAN :
         LET client == NewClient(loc[p].ns, cf)
             spec == PodSpec(loc[p].pod, loc[p].ns, loc[p].h.image, SdkLabels(loc[p].h.opts))
             r == CreatePod(pods, client.c, spec, fault)
         IN IF client.err # Nil
            THEN /\ ret' = [ret EXCEPT ![p] = [NoRet EXCEPT !.err = client.err]]
                 /\ pc' = [pc EXCEPT ![p] = AfterSdk(op[p])]
                 /\ UNCHANGED <<pods, trace, wait>>
            ELSE /\ pods' = r.pods
                 /\ trace' = [trace EXCEPT ![p] = Append(@, Req("CreatePod", r.key, <<>>, r.err))]
                 /\ IF r.err # Nil
                    THEN /\ ret' = [ret EXCEPT ![p] = [NoRet EXCEPT !.err = r.err]]
                         /\ pc' = [pc EXCEPT ![p] = AfterSdk(op[p])]
                         /\ UNCHANGED wait
                    ELSE /\ wait' = [wait EXCEPT ![p] = [NoWait EXCEPT !.timeout = ReadyTimeout]]
                         /\ pc' = [pc EXCEPT ![p] = "w_check"]
                         /\ UNCHANGED ret
    /\ UNCHANGED <<sandboxes, mu, op, arg, hnd, loc, destroyed, obs>>

\* The error of WaitForPodReady dropped: the handle is returned whatever it was.
CreateReadyIgnoreErr(p) ==
    /\ pc[p] = "cs_ready"
    /\ ret' = [ret EXCEPT ![p] = [NoRet EXCEPT !.h = [loc[p].h EXCEPT !.id = loc[p].pod]]]
    /\ hnd' = IF op[p] \in {"CreateSandbox", "CreateSandboxAuto"}
              THEN [hnd EXCEPT ![p] = [loc[p].h EXCEPT !.id = loc[p].pod]]
              ELSE hnd
    /\ destroyed' = IF op[p] \in {"CreateSandbox", "CreateSandboxAuto"}
                    THEN destroyed \ {p} ELSE destroyed
    /\ pc' = [pc EXCEPT ![p] = AfterSdk(op[p])]
    /\ wait' = [wait EXCEPT ![p] = [NoWait EXCEPT !.timeout = ReadyTimeout]]
    /\ UNCHANGED <<pods, sandboxes, mu, op, arg, loc, trace, obs>>

\* after WaitForPodReady: its error, or s.id = podName and the handle
CreateReady(p) ==
    /\ pc[p] = "cs_ready"
    /\ IF wait[p].err # Nil
       THEN /\ ret' = [ret EXCEPT ![p] = [NoRet EXCEPT !.err = wait[p].err]]
            /\ UNCHANGED <<hnd, destroyed>>
       ELSE /\ ret' = [ret EXCEPT ![p] = [NoRet EXCEPT !.h = [loc[p].h EXCEPT !.id = loc[p].pod]]]
            /\ hnd' = IF op[p] \in {"CreateSandbox", "CreateSandboxAuto"}
                      THEN [hnd EXCEPT ![p] = [loc[p].h EXCEPT !.id = loc[p].pod]]
                      ELSE hnd
            /\ destroyed' = IF op[p] \in {"CreateSandbox", "CreateSandboxAuto"}
                            THEN destroyed \ {p} ELSE destroyed
    /\ pc' = [pc EXCEPT ![p] = AfterSdk(op[p])]
    /\ wait' = [wait EXCEPT ![p] = [NoWait EXCEPT !.timeout = ReadyTimeout]]
    /\ UNCHANGED <<pods, sandboxes, mu, op, arg, loc, trace, obs>>

\* &Output{Result: o, Error: "", ExitCode: 0}; a *Output is <<>> when nil
Output(o) == <<[Result |-> o, Error |-> "", ExitCode |-> 0]>>

\* The exec error turned into a result with a non-zero exit code and no error.
RunResultErrAsExitCode(r) ==
    IF r.err # Nil
    THEN [err |-> Nil, out |-> r.out,
          res |-> <<[Result |-> r.out, Error |-> Cause(r.err), ExitCode |-> 1]>>]
    ELSE [err |-> Nil, out |-> r.out, res |-> Output(r.out)]

\* What Run and Exec return for the result r of their last ExecCommand
RunResult(r) ==
    IF r.err # Nil
    THEN [err |-> r.err, out |-> <<>>, res |-> <<>>]
    ELSE [err |-> Nil, out |-> r.out, res |-> Output(r.out)]

\* Run that waits while another Run on the same sandbox is at its exec.
RunExecOneAtATime(p) ==
    /\ pc[p] = "run_exec"
    /\ \A q \in Procs \ {p} : ~(pc[q] = "run_exec" /\ loc[q].h.name = loc[p].h.name)
    /\ \E cf \in ClientFaults, fault \in ExecFaults :
         LET ns == NamespaceOf(loc[p].h.opts)
             client == NewClient(ns, cf)
             r == ExecCommand(pods, client.c, loc[p].h.id, ns, arg[p].code, fault)
         IN IF client.err # Nil
            THEN /\ ret' = [ret EXCEPT ![p] = [NoRet EXCEPT !.err = client.err]]
                 /\ UNCHANGED <<pods, trace>>
            ELSE /\ pods' = r.pods
                 /\ trace' = [trace EXCEPT ![p] =
                                Append(@, Req("Exec", Key(ns, loc[p].h.id), arg[p].code, r.err))]
                 /\ ret' = [ret EXCEPT ![p] = [NoRet EXCEPT !.err = RunResult(r).err,
                                                            !.out = RunResult(r).out,
                                                            !.res = RunResult(r).res]]
    /\ pc' = [pc EXCEPT ![p] = AfterSdk(op[p])]
    /\ UNCHANGED <<sandboxes, mu, op, arg, hnd, loc, wait, destroyed, obs>>

\* Run: NewClient(namespace), then sh -c code in pod s.id
RunExec(p) ==
    /\ pc[p] = "run_exec"
    /\ \E cf \in ClientFaults, fault \in ExecFaults :
         LET ns == NamespaceOf(loc[p].h.opts)
             client == NewClient(ns, cf)
             r == ExecCommand(pods, client.c, loc[p].h.id, ns, arg[p].code, fault)
         IN IF client.err # Nil
            THEN /\ ret' = [ret EXCEPT ![p] = [NoRet EXCEPT !.err = client.err]]
                 /\ UNCHANGED <<pods, trace>>
            ELSE /\ pods' = r.pods
                 /\ trace' = [trace EXCEPT ![p] =
                                Append(@, Req("Exec", Key(ns, loc[p].h.id), arg[p].code, r.err))]
                 /\ ret' = [ret EXCEPT ![p] = [NoRet EXCEPT !.err = RunResult(r).err,
                                                            !.out = RunResult(r).out,
                                                            !.res = RunResult(r).res]]
    /\ pc' = [pc EXCEPT ![p] = AfterSdk(op[p])]
    /\ UNCHANGED <<sandboxes, mu, op, arg, hnd, loc, wait, destroyed, obs>>

ScriptFile == "/tmp/exec_script.sh"
WriteCmd(body) == <<"cat", ">", ScriptFile, "<<EOF", body>>
ChmodCmd == <<"chmod", "+x", ScriptFile>>

\* One exec round trip of Exec: on an error Exec returns it, else goes on at next.
\* The client is made by NewClient(namespace) before the first round trip.
ExecRoundTrip(p, at, words, next) ==
    /\ pc[p] = at
    /\ \E cf \in IF at = "ex_write" THEN ClientFaults ELSE {"none"}, fault \in ExecFaults :
         LET ns == NamespaceOf(loc[p].h.opts)
             client == NewClient(ns, cf)
             r == ExecCommand(pods, client.c, loc[p].h.id, ns, words, fault)
         IN IF client.err # Nil
            THEN /\ ret' = [ret EXCEPT ![p] = [NoRet EXCEPT !.err = client.err]]
                 /\ pc' = [pc EXCEPT ![p] = AfterSdk(op[p])]
                 /\ UNCHANGED <<pods, trace>>
            ELSE /\ pods' = r.pods
                 /\ trace' = [trace EXCEPT ![p] =
                                Append(@, Req("Exec", Key(ns, loc[p].h.id), words, r.err))]
                 /\ IF r.err # Nil
                    THEN /\ ret' = [ret EXCEPT ![p] = [NoRet EXCEPT !.err = r.err]]
                         /\ pc' = [pc EXCEPT ![p] = AfterSdk(op[p])]
                    ELSE IF next = "done"
                    THEN /\ ret' = [ret EXCEPT ![p] = [NoRet EXCEPT !.out = RunResult(r).out,
                                                                    !.res = RunResult(r).res]]
                         /\ pc' = [pc EXCEPT ![p] = AfterSdk(op[p])]
                    ELSE /\ pc' = [pc EXCEPT ![p] = next]
                         /\ UNCHANGED ret
    /\ UNCHANGED <<sandboxes, mu, op, arg, hnd, loc, wait, destroyed, obs>>

\* The chmod error dropped: Exec goes on to run the script.
ExecChmodIgnoreErr(p) ==
    /\ pc[p] = "ex_chmod"
    /\ \E fault \in ExecFaults :
         LET ns == NamespaceOf(loc[p].h.opts)
             r == ExecCommand(pods, NewClient(ns, "none").c, loc[p].h.id, ns, ChmodCmd, fault)
         IN /\ pods' = r.pods
            /\ trace' = [trace EXCEPT ![p] =
                           Append(@, Req("Exec", Key(ns, loc[p].h.id), ChmodCmd, r.err))]
    /\ pc' = [pc EXCEPT ![p] = "ex_run"]
    /\ UNCHANGED <<sandboxes, mu, op, arg, hnd, loc, wait, ret, destroyed, obs>>

\* Exec, step 1: write the commands to the script file
ExecWrite(p) == ExecRoundTrip(p, "ex_write", WriteCmd(arg[p].body), "ex_chmod")

\* Exec, step 2: make the file executable
ExecChmod(p) == ExecRoundTrip(p, "ex_chmod", ChmodCmd, "ex_run")

\* Exec, step 3: ToLanguage(s.lc.language), then the interpreter
ExecRun(p) ==
    IF ToLanguage(loc[p].h.language).err # Nil
    THEN /\ pc[p] = "ex_run"
         /\ ret' = [ret EXCEPT ![p] = [NoRet EXCEPT !.err = ToLanguage(loc[p].h.language).err]]
         /\ pc' = [pc EXCEPT ![p] = AfterSdk(op[p])]
         /\ UNCHANGED <<pods, sandboxes, mu, op, arg, hnd, loc, wait, trace, destroyed, obs>>
    ELSE ExecRoundTrip(p, "ex_run", GetExecScript(ToLanguage(loc[p].h.language).lang), "done")

\* Destroy: NewClient(namespace), ForceDeletePod("sandboxed-" + s.lc.name, namespace)
DestroyDelete(p) ==
    /\ pc[p] = "de_delete"
    /\ \E cf \in ClientFaults, fault \in BOOLEAN :
         LET ns == NamespaceOf(loc[p].h.opts)
             client == NewClient(ns, cf)
             r == ForceDeletePod(pods, client.c, PodName(loc[p].h.name), ns, fault)
         IN IF client.err # Nil
            THEN /\ ret' = [ret EXCEPT ![p] = [NoRet EXCEPT !.err = client.err,
                                                            !.again = p \in destroyed]]
                 /\ UNCHANGED <<pods, trace, destroyed>>
            ELSE /\ pods' = r.pods
                 /\ trace' = [trace EXCEPT ![p] =
                                Append(@, Req("DeletePod", r.key, <<>>, r.err))]
                 /\ ret' = [ret EXCEPT ![p] = [NoRet EXCEPT !.err = r.err,
                                                            !.again = p \in destroyed]]
                 /\ destroyed' = IF r.err = Nil /\ op[p] = "Destroy"
                                 THEN destroyed \cup {p} ELSE destroyed
    /\ pc' = [pc EXCEPT ![p] = AfterSdk(op[p])]
    /\ UNCHANGED <<sandboxes, mu, op, arg, hnd, loc, wait, obs>>

(* The SDK's user: one handle at a time, kept after Destroy. *)

SdkCreateSandbox(p) ==
    /\ \E n \in SdkNames, l \in SdkLangs, o \in SdkOpts :
          Begin(p, "CreateSandbox", [NoArg EXCEPT !.name = n, !.lang = l, !.opts = o],
                "cs_lookup")
    /\ UNCHANGED <<pods, sandboxes, mu, hnd, destroyed, obs>>

SdkCall(p, o, a, at) ==
    /\ hnd[p] # NoHandle
    /\ pc[p] = "idle"
    /\ op' = [op EXCEPT ![p] = o]
    /\ arg' = [arg EXCEPT ![p] = a]
    /\ pc' = [pc EXCEPT ![p] = at]
    /\ loc' = [loc EXCEPT ![p] = [NoLoc EXCEPT !.h = hnd[p]]]
    /\ wait' = [wait EXCEPT ![p] = NoWait]
    /\ ret' = [ret EXCEPT ![p] = NoRet]
    /\ trace' = [trace EXCEPT ![p] = <<>>]
    /\ UNCHANGED <<pods, sandboxes, mu, hnd, destroyed, obs>>

SdkRun(p) == \E c \in Codes : SdkCall(p, "Run", [NoArg EXCEPT !.code = c], "run_exec")

SdkExec(p) == \E b \in SdkBodies : SdkCall(p, "Exec", [NoArg EXCEPT !.body = b], "ex_write")

SdkDestroy(p) == SdkCall(p, "Destroy", NoArg, "de_delete")

NextSdk ==
    \/ PodProgress
    \/ \E p \in SdkProcs : SdkCreateSandbox(p)
    \/ \E p \in SdkProcs : CreateLookup(p)
    \/ \E p \in SdkProcs : CreateSubmit(p)
    \/ \E p \in SdkProcs : WaitCheck(p)
    \/ \E p \in SdkProcs : WaitFetch(p)
    \/ \E p \in SdkProcs : WaitSleep(p)
    \/ \E p \in SdkProcs : CreateReady(p)
    \/ \E p \in SdkProcs : SdkRun(p)
    \/ \E p \in SdkProcs : RunExec(p)
    \/ \E p \in SdkProcs : SdkExec(p)
    \/ \E p \in SdkProcs : ExecWrite(p)
    \/ \E p \in SdkProcs : ExecChmod(p)
    \/ \E p \in SdkProcs : ExecRun(p)
    \/ \E p \in SdkProcs : SdkDestroy(p)
    \/ \E p \in SdkProcs : DestroyDelete(p)

SpecSdk == Init /\ [][NextSdk]_vars

(* Two users of the SDK, each with a handle of its own, on the same name. *)

UserProcs == {"p1", "p2"}
UserLangs == {"python"}
UserCodes == {<<"true">>}

UserCreateSandbox(p) ==
    /\ \E n \in SdkNames, l \in UserLangs :
          Begin(p, "CreateSandbox", [NoArg EXCEPT !.name = n, !.lang = l], "cs_lookup")
    /\ UNCHANGED <<pods, sandboxes, mu, hnd, destroyed, obs>>

UserRun(p) == \E c \in UserCodes : SdkCall(p, "Run", [NoArg EXCEPT !.code = c], "run_exec")

UserDestroy(p) == SdkCall(p, "Destroy", NoArg, "de_delete")

NextUsers ==
    \/ PodProgress
    \/ \E p \in UserProcs : UserCreateSandbox(p)
    \/ \E p \in UserProcs : CreateLookup(p)
    \/ \E p \in UserProcs : CreateSubmit(p)
    \/ \E p \in UserProcs : WaitCheck(p)
    \/ \E p \in UserProcs : WaitFetch(p)
    \/ \E p \in UserProcs : WaitSleep(p)
    \/ \E p \in UserProcs : CreateReady(p)
    \/ \E p \in UserProcs : UserRun(p)
    \/ \E p \in UserProcs : RunExec(p)
    \/ \E p \in UserProcs : UserDestroy(p)
    \/ \E p \in UserProcs : DestroyDelete(p)

SpecUsers == Init /\ [][NextUsers]_vars

-----------------------------------------------------------------------------
(* pkg/mcp: SandboxManager.  loc[p].m is the method a process is in; a method *)
(* is three steps: take the lock, touch the map, release the lock (deferred). *)

\* AddSandbox mistaken for a reader.
ExclusiveRemoveOnly(m) == m = "Remove"

\* sm.mu.Lock() in AddSandbox and RemoveSandbox, sm.mu.RLock() in the others
Exclusive(m) == m \in {"Add", "Remove"}

\* delete that leaves the map as it is.
MapDeleteNothing(map, name) == map

\* sm.sandboxes[name] = sandbox
MapPut(map, name, h) == [n \in (DOMAIN map) \cup {name} |-> IF n = name THEN h ELSE map[n]]

\* delete(sm.sandboxes, name)
MapDelete(map, name) == [n \in (DOMAIN map) \ {name} |-> map[n]]

\* A range that may come upon a key more than once.
MapRangeWithRepeats(map) == [1..Cardinality(DOMAIN map) -> DOMAIN map]

\* for name := range sm.sandboxes: every key once, in an order the runtime picks
MapRange(map) ==
    {s \in [1..Cardinality(DOMAIN map) -> DOMAIN map] :
        \A i, j \in DOMAIN s : i # j => s[i] # s[j]}

\* Where a registry method returns to.
AfterReg(o, m) ==
    CASE o = "create_sandbox" /\ m = "Get"     -> "mc_create"
      [] o = "create_sandbox" /\ m = "Add"     -> "mc_added"
      [] o = "run_code"                        -> "mc_run"
      [] o = "destroy_sandbox" /\ m = "Get"    -> "mc_destroy"
      [] o = "destroy_sandbox" /\ m = "Remove" -> "mc_removed"
      [] o = "list_sandboxes"                  -> "mc_listed"
      [] OTHER                                 -> "idle"

RegLock(p) ==
    /\ pc[p] = "reg_lock"
    /\ IF Exclusive(loc[p].m)
       THEN /\ mu.writer = None
            /\ mu.readers = {}
            /\ mu' = [mu EXCEPT !.writer = p]
       ELSE /\ mu.writer = None
            /\ mu' = [mu EXCEPT !.readers = @ \cup {p}]
    /\ pc' = [pc EXCEPT ![p] = "reg_body"]
    /\ UNCHANGED <<pods, sandboxes, op, arg, hnd, loc, wait, ret, trace, destroyed, obs>>

RegBody(p) ==
    /\ pc[p] = "reg_body"
    /\ CASE loc[p].m = "Add" ->
              /\ sandboxes' = MapPut(sandboxes, arg[p].name, loc[p].h)
              /\ added' = added \cup {arg[p].name}
              /\ UNCHANGED loc
         [] loc[p].m = "Remove" ->
              /\ sandboxes' = MapDelete(sandboxes, arg[p].name)
              /\ added' = added \ {arg[p].name}
              /\ UNCHANGED loc
         [] loc[p].m = "Get" ->
              /\ loc' = [loc EXCEPT
                           ![p].found = arg[p].name \in DOMAIN sandboxes,
                           ![p].h = IF arg[p].name \in DOMAIN sandboxes
                                    THEN sandboxes[arg[p].name] ELSE NoHandle]
              /\ UNCHANGED <<sandboxes, added>>
         [] OTHER ->
              /\ \E s \in MapRange(sandboxes) : loc' = [loc EXCEPT ![p].names = s]
              /\ UNCHANGED <<sandboxes, added>>
    /\ pc' = [pc EXCEPT ![p] = "reg_unlock"]
    /\ UNCHANGED <<pods, mu, op, arg, hnd, wait, ret, trace, destroyed, calls, k8sClient>>

RegUnlock(p) ==
    /\ pc[p] = "reg_unlock"
    /\ mu' = IF mu.writer = p THEN [mu EXCEPT !.writer = None]
             ELSE [mu EXCEPT !.readers = @ \ {p}]
    /\ pc' = [pc EXCEPT ![p] = AfterReg(op[p], loc[p].m)]
    /\ ret' = IF AfterReg(op[p], loc[p].m) = "idle"
              THEN [ret EXCEPT ![p] = [NoRet EXCEPT !.found = loc[p].found, !.h = loc[p].h,
                                                    !.names = loc[p].names]]
              ELSE ret
    /\ UNCHANGED <<pods, sandboxes, op, arg, hnd, loc, wait, trace, destroyed, obs>>

(* Direct callers of the SandboxManager. *)

RegHandle(name) == Handle(name, "python", Languages["python"], <<>>, PodName(name))

RegCall(p) ==
    /\ pc[p] = "idle"
    /\ \E m \in {"Add", "Get", "Remove", "List"}, n \in Names :
          /\ op' = [op EXCEPT ![p] = m]
          /\ arg' = [arg EXCEPT ![p] = [NoArg EXCEPT !.name = IF m = "List" THEN "" ELSE n]]
          /\ loc' = [loc EXCEPT ![p] = [NoLoc EXCEPT !.m = m,
                                          !.h = IF m = "Add" THEN RegHandle(n) ELSE NoHandle]]
    /\ pc' = [pc EXCEPT ![p] = "reg_lock"]
    /\ wait' = [wait EXCEPT ![p] = NoWait]
    /\ ret' = [ret EXCEPT ![p] = NoRet]
    /\ trace' = [trace EXCEPT ![p] = <<>>]
    /\ UNCHANGED <<pods, sandboxes, mu, hnd, destroyed, obs>>

NextReg ==
    \/ \E p \in Procs : RegCall(p)
    \/ \E p \in Procs : RegLock(p)
    \/ \E p \in Procs : RegBody(p)
    \/ \E p \in Procs : RegUnlock(p)

SpecReg == Init /\ [][NextReg]_vars

-----------------------------------------------------------------------------
(* pkg/mcp: the tool handlers.  Each runs on the goroutine of its request. *)

McpNames == {"a"}
McpLangs == {"python", "cobol"}
McpNamespaces == {""}
McpCodes == {<<"true">>}
\* args.Labels: <<>> when the request has none (nil), else the one map
McpLabels == {<<>>, <<[team |-> "x"]>>}

\* opts of create_sandbox: a namespace option when the argument is not empty,
\* then a labels option when the request has labels
McpOpts(namespace, labels) ==
    (IF namespace # "" THEN <<StrOpt("namespace", namespace)>> ELSE <<>>) \o
    (IF labels # <<>> THEN <<MapOpt("labels", labels[1])>> ELSE <<>>)

ToolCall(p, o, a, m) ==
    /\ pc[p] = "idle"
    /\ op' = [op EXCEPT ![p] = o]
    /\ arg' = [arg EXCEPT ![p] = a]
    /\ loc' = [loc EXCEPT ![p] = [NoLoc EXCEPT !.m = m]]
    /\ pc' = [pc EXCEPT ![p] = "reg_lock"]
    /\ wait' = [wait EXCEPT ![p] = NoWait]
    /\ ret' = [ret EXCEPT ![p] = NoRet]
    /\ trace' = [trace EXCEPT ![p] = <<>>]
    /\ UNCHANGED <<pods, sandboxes, mu, hnd, destroyed, obs>>

\* A handler returns its result.
ToolReturn(p, success, msg) ==
    /\ ret' = [ret EXCEPT ![p] = [NoRet EXCEPT !.success = success, !.msg = msg,
                                               !.err = ret[p].err, !.out = ret[p].out,
                                               !.found = loc[p].found,
                                               !.names = loc[p].names]]
    /\ pc' = [pc EXCEPT ![p] = "idle"]
    /\ loc' = [loc EXCEPT ![p] = NoLoc]

\* create_sandbox: sandboxManager.GetSandbox(args.Name) first
ToolCreateSandbox(p) ==
    \E n \in McpNames, l \in McpLangs, ns \in McpNamespaces, ls \in McpLabels :
        ToolCall(p, "create_sandbox",
                 [NoArg EXCEPT !.name = n, !.lang = l, !.ns = ns,
                               !.labels = IF ls = <<>> THEN NoLabels ELSE ls[1],
                               !.opts = McpOpts(ns, ls)],
                 "Get")

\* The answer of GetSandbox not looked at.
ToolCreateCheckIgnoreExists(p) ==
    /\ pc[p] = "mc_create"
    /\ IF ToLanguage(arg[p].lang).err # Nil
       THEN ToolReturn(p, FALSE, ErrorText(ToLanguage(arg[p].lang).err))
       ELSE /\ pc' = [pc EXCEPT ![p] = "cs_lookup"]
            /\ UNCHANGED <<ret, loc>>
    /\ UNCHANGED <<pods, sandboxes, mu, op, arg, hnd, wait, trace, destroyed, obs>>

\* create_sandbox after GetSandbox: already exists, ToLanguage, sdk.CreateSandbox
ToolCreateCheck(p) ==
    /\ pc[p] = "mc_create"
    /\ IF loc[p].found
       THEN ToolReturn(p, FALSE, "Sandbox already exists")
       ELSE IF ToLanguage(arg[p].lang).err # Nil
       THEN ToolReturn(p, FALSE, ErrorText(ToLanguage(arg[p].lang).err))
       ELSE /\ pc' = [pc EXCEPT ![p] = "cs_lookup"]
            /\ UNCHANGED <<ret, loc>>
    /\ UNCHANGED <<pods, sandboxes, mu, op, arg, hnd, wait, trace, destroyed, obs>>

\* The error of sdk.CreateSandbox not looked at: the name is added all the same.
ToolCreateDoneAddAnyway(p) ==
    /\ pc[p] = "mc_created"
    /\ loc' = [loc EXCEPT ![p].m = "Add", ![p].h = ret[p].h]
    /\ pc' = [pc EXCEPT ![p] = "reg_lock"]
    /\ UNCHANGED <<pods, sandboxes, mu, op, arg, hnd, wait, ret, trace, destroyed, obs>>

\* create_sandbox after sdk.CreateSandbox: its error, or sandboxManager.AddSandbox
ToolCreateDone(p) ==
    /\ pc[p] = "mc_created"
    /\ IF ret[p].err # Nil
       THEN ToolReturn(p, FALSE, ErrorText(ret[p].err))
       ELSE /\ loc' = [loc EXCEPT ![p].m = "Add", ![p].h = ret[p].h]
            /\ pc' = [pc EXCEPT ![p] = "reg_lock"]
            /\ UNCHANGED ret
    /\ UNCHANGED <<pods, sandboxes, mu, op, arg, hnd, wait, trace, destroyed, obs>>

ToolCreateAdded(p) ==
    /\ pc[p] = "mc_added"
    /\ ToolReturn(p, TRUE, "Sandbox created successfully")
    /\ UNCHANGED <<pods, sandboxes, mu, op, arg, hnd, wait, trace, destroyed, obs>>

\* run_code: sandboxManager.GetSandbox(args.SandboxName) first
ToolRunCode(p) ==
    \E n \in McpNames, c \in McpCodes :
        ToolCall(p, "run_code", [NoArg EXCEPT !.name = n, !.code = c], "Get")

\* run_code after GetSandbox: not found, or sandbox.Run(args.Code)
ToolRunCheck(p) ==
    /\ pc[p] = "mc_run"
    /\ IF ~loc[p].found
       THEN ToolReturn(p, FALSE, "Sandbox not found")
       ELSE /\ pc' = [pc EXCEPT ![p] = "run_exec"]
            /\ UNCHANGED <<ret, loc>>
    /\ UNCHANGED <<pods, sandboxes, mu, op, arg, hnd, wait, trace, destroyed, obs>>

ToolRunDone(p) ==
    /\ pc[p] = "mc_ran"
    /\ IF ret[p].err # Nil
       THEN ToolReturn(p, FALSE, ErrorText(ret[p].err))
       ELSE ToolReturn(p, TRUE, "")
    /\ UNCHANGED <<pods, sandboxes, mu, op, arg, hnd, wait, trace, destroyed, obs>>

\* destroy_sandbox: sandboxManager.GetSandbox(args.SandboxName) first
ToolDestroySandbox(p) ==
    \E n \in McpNames :
        ToolCall(p, "destroy_sandbox", [NoArg EXCEPT !.name = n], "Get")

\* destroy_sandbox after GetSandbox: not found, or sandbox.Destroy()
ToolDestroyCheck(p) ==
    /\ pc[p] = "mc_destroy"
    /\ IF ~loc[p].found
       THEN ToolReturn(p, FALSE, "Sandbox not found")
       ELSE /\ pc' = [pc EXCEPT ![p] = "de_delete"]
            /\ UNCHANGED <<ret, loc>>
    /\ UNCHANGED <<pods, sandboxes, mu, op, arg, hnd, wait, trace, destroyed, obs>>

\* Success reported straight after Destroy, the name left in the registry.
ToolDestroyDoneNoRemove(p) ==
    /\ pc[p] = "mc_destroyed"
    /\ IF ret[p].err # Nil
       THEN ToolReturn(p, FALSE, ErrorText(ret[p].err))
       ELSE ToolReturn(p, TRUE, "Sandbox destroyed successfully")
    /\ UNCHANGED <<pods, sandboxes, mu, op, arg, hnd, wait, trace, destroyed, obs>>

\* destroy_sandbox after Destroy: its error, or sandboxManager.RemoveSandbox
ToolDestroyDone(p) ==
    /\ pc[p] = "mc_destroyed"
    /\ IF ret[p].err # Nil
       THEN ToolReturn(p, FALSE, ErrorText(ret[p].err))
       ELSE /\ loc' = [loc EXCEPT ![p].m = "Remove"]
            /\ pc' = [pc EXCEPT ![p] = "reg_lock"]
            /\ UNCHANGED ret
    /\ UNCHANGED <<pods, sandboxes, mu, op, arg, hnd, wait, trace, destroyed, obs>>

ToolDestroyRemoved(p) ==
    /\ pc[p] = "mc_removed"
    /\ ToolReturn(p, TRUE, "Sandbox destroyed successfully")
    /\ UNCHANGED <<pods, sandboxes, mu, op, arg, hnd, wait, trace, destroyed, obs>>

\* list_sandboxes: sandboxManager.ListSandboxes()
ToolListSandboxes(p) == ToolCall(p, "list_sandboxes", NoArg, "List")

\* ListSandboxesResult{Sandboxes: sandboxes, Count: len(sandboxes)}
ListSandboxesResult(names) ==
    IF Len(names) = 0 THEN [Sandboxes |-> <<>>, Count |-> 0]
    ELSE [Sandboxes |-> names, Count |-> Len(names)]

ToolListDone(p) ==
    /\ pc[p] = "mc_listed"
    /\ ret' = [ret EXCEPT ![p] = [NoRet EXCEPT
                  !.success = TRUE,
                  !.names = ListSandboxesResult(loc[p].names).Sandboxes,
                  !.count = ListSandboxesResult(loc[p].names).Count]]
    /\ pc' = [pc EXCEPT ![p] = "idle"]
    /\ loc' = [loc EXCEPT ![p] = NoLoc]
    /\ UNCHANGED <<pods, sandboxes, mu, op, arg, hnd, wait, trace, destroyed, obs>>

NextMcp ==
    \/ PodProgress
    \/ \E p \in Procs : ToolCreateSandbox(p)
    \/ \E p \in Procs : ToolCreateCheck(p)
    \/ \E p \in Procs : CreateLookup(p)
    \/ \E p \in Procs : CreateSubmit(p)
    \/ \E p \in Procs : WaitCheck(p)
    \/ \E p \in Procs : WaitFetch(p)
    \/ \E p \in Procs : WaitSleep(p)
    \/ \E p \in Procs : CreateReady(p)
    \/ \E p \in Procs : ToolCreateDone(p)
    \/ \E p \in Procs : ToolCreateAdded(p)
    \/ \E p \in Procs : ToolRunCode(p)
    \/ \E p \in Procs : ToolRunCheck(p)
    \/ \E p \in Procs : RunExec(p)
    \/ \E p \in Procs : ToolRunDone(p)
    \/ \E p \in Procs : ToolDestroySandbox(p)
    \/ \E p \in Procs : ToolDestroyCheck(p)
    \/ \E p \in Procs : DestroyDelete(p)
    \/ \E p \in Procs : ToolDestroyDone(p)
    \/ \E p \in Procs : ToolDestroyRemoved(p)
    \/ \E p \in Procs : ToolListSandboxes(p)
    \/ \E p \in Procs : ToolListDone(p)
    \/ \E p \in Procs : RegLock(p)
    \/ \E p \in Procs : RegBody(p)
    \/ \E p \in Procs : RegUnlock(p)

SpecMcp == Init /\ [][NextMcp]_vars

-----------------------------------------------------------------------------
(* Callers of the language resolver: each call and what it returned is logged. *)

LangInputs == (DOMAIN Languages) \cup {"cobol", "javascript", "Python", ""}

Called(fn, a, str, err, valid) ==
    [fn |-> fn, arg |-> a, str |-> str, err |-> err, valid |-> valid]

\* sandboxedImpl.CreateSandbox of sdk.go: the image looked up, then the container
CreateContainer(name, lang, opts) ==
    IF LanguageLookup(lang).err # Nil
    THEN [lc |-> NoHandle, err |-> LanguageLookup(lang).err]
    ELSE [lc |-> Handle(name, lang, LanguageLookup(lang).image, opts, ""), err |-> Nil]

ResolveCall ==
    /\ Len(calls) < MaxCalls
    /\ \E a \in LangInputs,
          fn \in {"LanguageLookup", "DockerImage", "ToLanguage", "IsValid", "CreateSandbox"} :
          calls' = Append(calls,
              CASE fn = "LanguageLookup" ->
                     Called(fn, a, LanguageLookup(a).image, LanguageLookup(a).err, FALSE)
                [] fn = "DockerImage" ->
                     Called(fn, a, DockerImage(a).image, DockerImage(a).err, FALSE)
                [] fn = "ToLanguage" ->
                     Called(fn, a, ToLanguage(a).lang, ToLanguage(a).err, FALSE)
                [] fn = "CreateSandbox" ->
                     Called(fn, a, CreateContainer("test", a, <<>>).lc.image,
                            CreateContainer("test", a, <<>>).err, FALSE)
                [] OTHER ->
                     Called(fn, a, "", Nil, IsValid(a)))
    /\ UNCHANGED <<pods, sandboxes, mu, pc, op, arg, hnd, loc, wait, ret, trace, destroyed, added,
                 k8sClient>>

NextLang == ResolveCall

SpecLang == Init /\ [][NextLang]_vars

NextClient ==
    \/ PodProgress
    \/ \E p \in ClientProcs : ClientCreatePod(p)
    \/ \E p \in ClientProcs : ClientCreatePodStep(p)
    \/ \E p \in ClientProcs : ClientDeletePod(p)
    \/ \E p \in ClientProcs : ClientDeletePodStep(p)
    \/ \E p \in ClientProcs : ClientWaitForPodReady(p)
    \/ \E p \in ClientProcs : WaitCheck(p)
    \/ \E p \in ClientProcs : WaitFetch(p)
    \/ \E p \in ClientProcs : WaitSleep(p)

SpecClient == Init /\ [][NextClient]_vars

-----------------------------------------------------------------------------
(* cmd/server.go: POST /api/v1/sandbox/create.  A request carries language,  *)
(* namespace and labels; a missing language fails the JSON binding.  The     *)
(* response is its HTTP status and the SandboxResponse fields.               *)

RestProcs == {"p1", "p2"}
RestLangs == {"", "python", "cobol"}
RestNamespaces == {""}
RestLabels == {NoLabels}
\* time.Now().Unix() when the handler runs
RestSeconds == {1, 2}

RestReadyTimeout == 120

StatusOK == 200
StatusBadRequest == 400
StatusInternalServerError == 500
StatusCreated == 201

SandboxID(unix) == "sandbox-" \o ToString(unix)

getImageForLanguage(language) ==
    CASE language \in {"python", "py"}       -> "python:3.9-slim"
      [] language \in {"node", "nodejs", "js"} -> "node:18-slim"
      [] language \in {"go", "golang"}       -> "golang:1.21-alpine"
      [] language \in {"bash", "sh"}         -> "alpine:latest"
      [] language \in {"ruby", "rb"}         -> "ruby:3.0-slim"
      [] OTHER                               -> ""

\* serverCmd: the server makes its client once; on an error it runs without one
serverCmd ==
    /\ ~k8sClient.started
    /\ \E cf \in ClientFaults :
         LET client == NewClient(DefaultNamespace, cf)
         IN k8sClient' = [started |-> TRUE, nil |-> client.err # Nil, c |-> client.c]
    /\ UNCHANGED <<pods, sandboxes, mu, pc, op, arg, hnd, loc, wait, ret, trace, destroyed,
                   calls, added>>

\* the handler's own labels, then the request's labels over them
SandboxLabels(language, sandboxID, custom) ==
    LET base == [k \in {"app", "language", "created-by", "sandbox-id"} |->
                    CASE k = "app"        -> "sandbox"
                      [] k = "language"   -> language
                      [] k = "created-by" -> "sandboxed-api"
                      [] OTHER            -> sandboxID]
    IN [k \in (DOMAIN base) \cup (DOMAIN custom) |->
            IF k \in DOMAIN custom THEN custom[k] ELSE base[k]]

\* c.JSON(status, SandboxResponse{...})
SandboxResponse(p, status, err, id) ==
    /\ ret' = [ret EXCEPT ![p].status = status, ![p].success = (err = Nil),
                          ![p].err = err, ![p].id = id]
    /\ pc' = [pc EXCEPT ![p] = "idle"]

\* A request arrives and is bound: ShouldBindJSON, then the sandbox id.
createSandboxHandler(p) ==
    /\ k8sClient.started /\ ~k8sClient.nil
    /\ \E l \in RestLangs, ns \in RestNamespaces, ls \in RestLabels, t \in RestSeconds :
          Begin(p, "createSandboxHandler",
                [NoArg EXCEPT !.lang = l, !.ns = ns, !.labels = ls, !.name = SandboxID(t)],
                "rc_bind")
    /\ UNCHANGED <<pods, sandboxes, mu, hnd, destroyed, obs>>

RestCreateBind(p) ==
    /\ pc[p] = "rc_bind"
    /\ IF arg[p].lang = ""
       THEN SandboxResponse(p, StatusBadRequest, Err("Invalid request"), "")
       ELSE IF getImageForLanguage(arg[p].lang) = ""
       THEN SandboxResponse(p, StatusBadRequest,
                            Err("Unsupported language: " \o arg[p].lang), "")
       ELSE /\ pc' = [pc EXCEPT ![p] = "rc_create"]
            /\ UNCHANGED ret
    /\ UNCHANGED <<pods, sandboxes, mu, op, arg, hnd, loc, wait, trace, destroyed, obs>>

RestCreateSubmit(p) ==
    /\ pc[p] = "rc_create"
    /\ \E fault \in BOOLEAN :
         LET spec == [Name |-> arg[p].name, Namespace |-> arg[p].ns,
                      Image |-> getImageForLanguage(arg[p].lang),
                      Command |-> <<"sleep", "3600">>,
                      Labels |-> SandboxLabels(arg[p].lang, arg[p].name, arg[p].labels)]
             r == CreatePod(pods, DefaultNamespace, spec, fault)
         IN /\ pods' = r.pods
            /\ trace' = [trace EXCEPT ![p] = Append(@, Req("CreatePod", r.key, <<>>, r.err))]
            /\ IF r.err # Nil
               THEN /\ SandboxResponse(p, StatusInternalServerError,
                                       Wrap("Failed to create sandbox", r.err), "")
                    /\ UNCHANGED <<loc, wait>>
               ELSE /\ loc' = [loc EXCEPT ![p].pod = arg[p].name, ![p].ns = arg[p].ns]
                    /\ wait' = [wait EXCEPT ![p] = [NoWait EXCEPT !.timeout = RestReadyTimeout]]
                    /\ pc' = [pc EXCEPT ![p] = "w_check"]
                    /\ UNCHANGED ret
    /\ UNCHANGED <<sandboxes, mu, op, arg, hnd, destroyed, obs>>

RestCreateReady(p) ==
    /\ pc[p] = "rc_ready"
    /\ IF wait[p].err # Nil
       THEN SandboxResponse(p, StatusInternalServerError,
                            Wrap("Sandbox not ready", wait[p].err), "")
       ELSE SandboxResponse(p, StatusCreated, Nil, arg[p].name)
    /\ UNCHANGED <<pods, sandboxes, mu, op, arg, hnd, loc, wait, trace, destroyed, obs>>

\* what the sandbox routes can be asked about: the IDs the server gives out
RestSandboxIDs == {SandboxID(t) : t \in RestSeconds}
\* the connection that also uses and destroys sandboxes
RestUsers == {"p2"}
RestExecLangs == {"", "bash", "cobol"}
RestExecCodes == {"true"}

getCommandForLanguage(language, code) ==
    CASE language \in {"python", "py"}         -> <<"python", "-c", code>>
      [] language \in {"node", "nodejs", "js"} -> <<"node", "-e", code>>
      [] language \in {"go", "golang"}         -> <<"sh", "-c", "echo '" \o code \o
                                                     "' > /tmp/main.go && cd /tmp && go run main.go">>
      [] language \in {"bash", "sh"}           -> <<"sh", "-c", code>>
      [] language \in {"ruby", "rb"}           -> <<"ruby", "-e", code>>
      [] OTHER                                 -> <<>>

\* A request of one round trip at most starts and is answered in one step.
Answer(p, o, a, reqs, r) ==
    /\ pc[p] = "idle"
    /\ op' = [op EXCEPT ![p] = o]
    /\ arg' = [arg EXCEPT ![p] = a]
    /\ loc' = [loc EXCEPT ![p] = NoLoc]
    /\ wait' = [wait EXCEPT ![p] = NoWait]
    /\ trace' = [trace EXCEPT ![p] = reqs]
    /\ ret' = [ret EXCEPT ![p] = r]
    /\ UNCHANGED pc

\* POST /api/v1/execute/:sandboxID on a server that has a client: the command
\* of the language is run in the pod named by the path
executeInSandboxHandler(p, ids) ==
    /\ k8sClient.started /\ ~k8sClient.nil
    /\ \E id \in ids, l \in RestExecLangs, code \in RestExecCodes :
         LET a == [NoArg EXCEPT !.name = id, !.lang = l, !.body = code]
             command == getCommandForLanguage(l, code)
         IN IF l = ""
            THEN /\ Answer(p, "executeInSandboxHandler", a, <<>>,
                           [NoRet EXCEPT !.status = StatusBadRequest,
                                         !.err = Err("Invalid request")])
                 /\ UNCHANGED pods
            ELSE IF Len(command) = 0
            THEN /\ Answer(p, "executeInSandboxHandler", a, <<>>,
                           [NoRet EXCEPT !.status = StatusBadRequest,
                                         !.err = Err("Unsupported language: " \o l)])
                 /\ UNCHANGED pods
            ELSE \E fault \in ExecFaults :
                   LET r == ExecCommand(pods, k8sClient.c, id, "", command, fault)
                   IN /\ pods' = r.pods
                      /\ Answer(p, "executeInSandboxHandler", a,
                                <<Req("Exec", Key(k8sClient.c, id), command, r.err)>>,
                                IF r.err # Nil
                                THEN [NoRet EXCEPT !.status = StatusInternalServerError,
                                                   !.err = Wrap("Execution failed", r.err),
                                                   !.id = id]
                                ELSE [NoRet EXCEPT !.status = StatusOK, !.success = TRUE,
                                                   !.results = <<r.out>>, !.id = id])
    /\ UNCHANGED <<sandboxes, mu, hnd, destroyed, obs>>

\* POST /api/v1/sandbox/destroy on a server that has a client: the pod named
\* by sandbox_id is deleted, by force when the request says so
destroySandboxHandler(p, ids) ==
    /\ k8sClient.started /\ ~k8sClient.nil
    /\ \E id \in ids \cup {""}, force \in BOOLEAN :
         LET a == [NoArg EXCEPT !.name = id, !.force = force]
         IN IF id = ""
            THEN /\ Answer(p, "destroySandboxHandler", a, <<>>,
                           [NoRet EXCEPT !.status = StatusBadRequest,
                                         !.err = Err("Invalid request")])
                 /\ UNCHANGED pods
            ELSE \E fault \in BOOLEAN :
                   LET r == IF force THEN ForceDeletePod(pods, k8sClient.c, id, "", fault)
                                     ELSE DeletePod(pods, k8sClient.c, id, "", fault)
                   IN /\ pods' = r.pods
                      /\ Answer(p, "destroySandboxHandler", a,
                                <<Req("DeletePod", r.key, <<>>, r.err)>>,
                                IF r.err # Nil
                                THEN [NoRet EXCEPT !.status = StatusInternalServerError,
                                                   !.err = Wrap("Failed to destroy sandbox",
                                                                r.err)]
                                ELSE [NoRet EXCEPT !.status = StatusOK, !.success = TRUE,
                                                   !.msg = "Sandbox " \o id \o
                                                           " destroyed successfully"])
    /\ UNCHANGED <<sandboxes, mu, hnd, destroyed, obs>>

NextRest ==
    \/ PodProgress
    \/ serverCmd
    \/ \E p \in RestProcs : createSandboxHandler(p)
    \/ \E p \in RestUsers : executeInSandboxHandler(p, RestSandboxIDs)
    \/ \E p \in RestUsers : destroySandboxHandler(p, RestSandboxIDs)
    \/ \E p \in RestProcs : RestCreateBind(p)
    \/ \E p \in RestProcs : RestCreateSubmit(p)
    \/ \E p \in RestProcs : WaitCheck(p)
    \/ \E p \in RestProcs : WaitFetch(p)
    \/ \E p \in RestProcs : WaitSleep(p)
    \/ \E p \in RestProcs : RestCreateReady(p)

SpecRest == Init /\ [][NextRest]_vars

-----------------------------------------------------------------------------
(* pkg/k8sclient: CreateAndRunPod, and cmd/server.go: POST /execute, which    *)
(* calls it with cleanup on.  loc[p] holds the commands, the cleanup flag,   *)
(* the results so far and the error the function is about to return.        *)

\* p1 calls the client directly, p2 is a request to POST /execute
ExecProcs == {"p1", "p2"}
RunCallers == {"p1"}
ExecRequests == {"p2"}
ExecPods == {"api-exec-1"}
ExecLangs == {"", "bash", "cobol"}
ExecCodes == {"true", "false"}
CommandLists == {<<>>, <<<<"sh", "-c", "true">>, <<"sh", "-c", "true">>>>,
                 <<<<"sh", "-c", "true">>, <<"sh", "-c", "false">>>>}

RunReadyTimeout == 300
StatusServiceUnavailable == 503
\* req.Labels of POST /execute
ExecLabels == {NoLabels, [language |-> "mine"]}

getCommandsForLanguage(language, code) ==
    CASE language \in {"python", "py"}         -> <<<<"python", "-c", code>>>>
      [] language \in {"node", "nodejs", "js"} -> <<<<"node", "-e", code>>>>
      [] language \in {"go", "golang"}         -> <<<<"sh", "-c", "echo '" \o code \o
                                                       "' > /tmp/main.go && cd /tmp && go run main.go">>>>
      [] language \in {"bash", "sh"}           -> <<<<"sh", "-c", code>>>>
      [] language \in {"ruby", "rb"}           -> <<<<"ruby", "-e", code>>>>
      [] OTHER                                 -> <<>>

getStatusCode(success) == IF success THEN StatusOK ELSE StatusInternalServerError

\* Where CreateAndRunPod returns to.
AfterRun(o) == IF o = "executeCode" THEN "ex_done" ELSE "idle"

\* CreateAndRunPod returns (results, err).
RunReturn(p, results, err) ==
    /\ ret' = [ret EXCEPT ![p].results = results, ![p].err = err]
    /\ pc' = [pc EXCEPT ![p] = AfterRun(op[p])]

\* A direct call of CreateAndRunPod(spec, commands, cleanup).
ClientCreateAndRunPod(p) ==
    /\ pc[p] = "idle"
    /\ \E n \in ExecPods, cs \in CommandLists, cleanup \in BOOLEAN :
          /\ op' = [op EXCEPT ![p] = "CreateAndRunPod"]
          /\ arg' = [arg EXCEPT ![p] = [NoArg EXCEPT !.name = n, !.lang = "bash"]]
          /\ loc' = [loc EXCEPT ![p] = [NoLoc EXCEPT !.cmds = cs, !.cleanup = cleanup,
                                                     !.labels = NoLabels]]
    /\ pc' = [pc EXCEPT ![p] = "carp_create"]
    /\ wait' = [wait EXCEPT ![p] = NoWait]
    /\ ret' = [ret EXCEPT ![p] = NoRet]
    /\ trace' = [trace EXCEPT ![p] = <<>>]
    /\ UNCHANGED <<pods, sandboxes, mu, hnd, destroyed, obs>>

\* c.JSON(status, ExecuteResponse{...})
ExecuteResponse(p, status, err, output, podName) ==
    /\ ret' = [ret EXCEPT ![p] = [NoRet EXCEPT !.status = status, !.success = (err = Nil),
                                               !.err = err, !.results = output,
                                               !.id = podName]]
    /\ pc' = [pc EXCEPT ![p] = "idle"]

\* POST /execute: without a client the answer is 503, to a request that does
\* not bind 400; else the request is handed to executeCode.
executeCodeHandler(p) ==
    /\ k8sClient.started
    /\ pc[p] = "idle"
    /\ \E l \in ExecLangs, code \in ExecCodes, n \in ExecPods, ls \in ExecLabels :
          /\ op' = [op EXCEPT ![p] = "executeCode"]
          /\ arg' = [arg EXCEPT ![p] = [NoArg EXCEPT !.lang = l, !.body = code, !.name = n,
                                                     !.labels = ls]]
          /\ IF k8sClient.nil
             THEN ExecuteResponse(p, StatusServiceUnavailable,
                                  Err("Kubernetes client not available"), <<>>, "")
             ELSE IF l = ""
             THEN ExecuteResponse(p, StatusBadRequest, Err("Invalid request"), <<>>, "")
             ELSE /\ pc' = [pc EXCEPT ![p] = "ex_image"]
                  /\ ret' = [ret EXCEPT ![p] = NoRet]
    /\ loc' = [loc EXCEPT ![p] = NoLoc]
    /\ wait' = [wait EXCEPT ![p] = NoWait]
    /\ trace' = [trace EXCEPT ![p] = <<>>]
    /\ UNCHANGED <<pods, sandboxes, mu, hnd, destroyed, obs>>

\* labels of the pod of POST /execute: the handler's own, then the request's
ExecutionLabels(language, custom) ==
    LET base == [k \in {"app", "language", "created-by"} |->
                    CASE k = "app"      -> "api-execution"
                      [] k = "language" -> language
                      [] OTHER          -> "sandboxed-api"]
    IN [k \in (DOMAIN base) \cup (DOMAIN custom) |->
            IF k \in DOMAIN custom THEN custom[k] ELSE base[k]]

\* executeCode up to its call of CreateAndRunPod(spec, commands, true)
executeCode(p) ==
    /\ pc[p] = "ex_image"
    /\ LET image == getImageForLanguage(arg[p].lang)
           commands == getCommandsForLanguage(arg[p].lang, arg[p].body)
       IN IF image = "" \/ Len(commands) = 0
          THEN /\ ExecuteResponse(p, getStatusCode(FALSE),
                                  Err("Unsupported language: " \o arg[p].lang \o
                                      ". Supported: python, node, go, bash, ruby"),
                                  <<>>, "")
               /\ UNCHANGED loc
          ELSE /\ loc' = [loc EXCEPT ![p].cmds = commands, ![p].cleanup = TRUE,
                                     ![p].labels = ExecutionLabels(arg[p].lang, arg[p].labels)]
               /\ pc' = [pc EXCEPT ![p] = "carp_create"]
               /\ UNCHANGED ret
    /\ UNCHANGED <<pods, sandboxes, mu, op, arg, hnd, wait, trace, destroyed, obs>>

\* pod, err := c.CreatePod(spec); on success the deferred cleanup is armed
RunCreate(p) ==
    /\ pc[p] = "carp_create"
    /\ \E fault \in BOOLEAN :
         LET spec == [Name |-> arg[p].name, Namespace |-> arg[p].ns,
                      Image |-> getImageForLanguage(arg[p].lang), Command |-> <<>>,
                      Labels |-> loc[p].labels]
             r == CreatePod(pods, DefaultNamespace, spec, fault)
         IN /\ pods' = r.pods
            /\ trace' = [trace EXCEPT ![p] = Append(@, Req("CreatePod", r.key, <<>>, r.err))]
            /\ IF r.err # Nil
               THEN /\ RunReturn(p, <<>>, Wrap("failed to create pod", r.err))
                    /\ UNCHANGED <<loc, wait>>
               ELSE /\ loc' = [loc EXCEPT ![p].pod = r.key[2], ![p].ns = r.key[1]]
                    /\ wait' = [wait EXCEPT ![p] = [NoWait EXCEPT !.timeout = RunReadyTimeout]]
                    /\ pc' = [pc EXCEPT ![p] = "w_check"]
                    /\ UNCHANGED ret
    /\ UNCHANGED <<sandboxes, mu, op, arg, hnd, destroyed, obs>>

\* The wait error is returned at once, the deferred cleanup skipped.
RunReadyNoCleanup(p) ==
    /\ pc[p] = "carp_ready"
    /\ IF wait[p].err # Nil
       THEN /\ RunReturn(p, <<>>, Wrap("pod not ready", wait[p].err))
            /\ UNCHANGED loc
       ELSE /\ pc' = [pc EXCEPT ![p] = "carp_exec"]
            /\ UNCHANGED <<loc, ret>>
    /\ UNCHANGED <<pods, sandboxes, mu, op, arg, hnd, wait, trace, destroyed, obs>>

\* err = c.WaitForPodReady(...): on error return nil and "pod not ready"
RunReady(p) ==
    /\ pc[p] = "carp_ready"
    /\ IF wait[p].err # Nil
       THEN /\ loc' = [loc EXCEPT ![p].results = <<>>,
                                  ![p].err = Wrap("pod not ready", wait[p].err)]
            /\ pc' = [pc EXCEPT ![p] = "carp_defer"]
       ELSE /\ pc' = [pc EXCEPT ![p] = "carp_exec"]
            /\ UNCHANGED loc
    /\ UNCHANGED <<pods, sandboxes, mu, op, arg, hnd, wait, ret, trace, destroyed, obs>>

\* The loop going on after a failed command, its output kept with the others.
RunCommandKeepGoing(p) ==
    /\ pc[p] = "carp_exec"
    /\ LET i == Len(loc[p].results) + 1 IN
       IF i > Len(loc[p].cmds)
       THEN /\ pc' = [pc EXCEPT ![p] = "carp_defer"]
            /\ UNCHANGED <<pods, loc, trace>>
       ELSE \E fault \in ExecFaults :
              LET r == ExecCommand(pods, DefaultNamespace, loc[p].pod, loc[p].ns,
                                   loc[p].cmds[i], fault)
              IN /\ pods' = r.pods
                 /\ trace' = [trace EXCEPT ![p] =
                        Append(@, Req("Exec", Key(loc[p].ns, loc[p].pod), loc[p].cmds[i], r.err))]
                 /\ loc' = [loc EXCEPT ![p].results = Append(@, r.out),
                                       ![p].err = IF r.err # Nil
                                                  THEN Wrap("command execution failed", r.err)
                                                  ELSE @]
                 /\ UNCHANGED pc
    /\ UNCHANGED <<sandboxes, mu, op, arg, hnd, wait, ret, destroyed, obs>>

\* for _, command := range commands: one ExecCommand per turn of the loop
RunCommand(p) ==
    /\ pc[p] = "carp_exec"
    /\ LET i == Len(loc[p].results) + 1 IN
       IF i > Len(loc[p].cmds)
       THEN /\ pc' = [pc EXCEPT ![p] = "carp_defer"]
            /\ UNCHANGED <<pods, loc, trace>>
       ELSE \E fault \in ExecFaults :
              LET r == ExecCommand(pods, DefaultNamespace, loc[p].pod, loc[p].ns,
                                   loc[p].cmds[i], fault)
              IN /\ pods' = r.pods
                 /\ trace' = [trace EXCEPT ![p] =
                        Append(@, Req("Exec", Key(loc[p].ns, loc[p].pod), loc[p].cmds[i], r.err))]
                 /\ IF r.err # Nil
                    THEN /\ loc' = [loc EXCEPT ![p].err = Wrap("command execution failed", r.err)]
                         /\ pc' = [pc EXCEPT ![p] = "carp_defer"]
                    ELSE /\ loc' = [loc EXCEPT ![p].results = Append(@, r.out)]
                         /\ UNCHANGED pc
    /\ UNCHANGED <<sandboxes, mu, op, arg, hnd, wait, ret, destroyed, obs>>

\* The deferred function runs as CreateAndRunPod returns: _ = c.DeletePod(...)
RunDeferred(p) ==
    /\ pc[p] = "carp_defer"
    /\ IF loc[p].cleanup
       THEN \E fault \in BOOLEAN :
              LET r == DeletePodWithOptions(pods, DefaultNamespace, loc[p].pod, loc[p].ns,
                                            FALSE, fault)
              IN /\ pods' = r.pods
                 /\ trace' = [trace EXCEPT ![p] = Append(@, Req("DeletePod", r.key, <<>>, r.err))]
       ELSE UNCHANGED <<pods, trace>>
    /\ RunReturn(p, loc[p].results, loc[p].err)
    /\ UNCHANGED <<sandboxes, mu, op, arg, hnd, loc, wait, destroyed, obs>>

\* executeCode after CreateAndRunPod, and the handler's c.JSON
executeCodeDone(p) ==
    /\ pc[p] = "ex_done"
    /\ IF ret[p].err # Nil
       THEN ExecuteResponse(p, getStatusCode(FALSE), Wrap("Execution failed", ret[p].err),
                            <<>>, arg[p].name)
       ELSE ExecuteResponse(p, getStatusCode(TRUE), Nil, ret[p].results, arg[p].name)
    /\ UNCHANGED <<pods, sandboxes, mu, op, arg, hnd, loc, wait, trace, destroyed, obs>>

NextExec ==
    \/ PodProgress
    \/ serverCmd
    \/ \E p \in RunCallers : ClientCreateAndRunPod(p)
    \/ \E p \in ExecRequests : executeCodeHandler(p)
    \/ \E p \in ExecProcs : executeCode(p)
    \/ \E p \in ExecProcs : RunCreate(p)
    \/ \E p \in ExecProcs : WaitCheck(p)
    \/ \E p \in ExecProcs : WaitFetch(p)
    \/ \E p \in ExecProcs : WaitSleep(p)
    \/ \E p \in ExecProcs : RunReady(p)
    \/ \E p \in ExecProcs : RunCommand(p)
    \/ \E p \in ExecProcs : RunDeferred(p)
    \/ \E p \in ExecProcs : executeCodeDone(p)

SpecExec == Init /\ [][NextExec]_vars

-----------------------------------------------------------------------------
(* pkg/sdk: DetectLanguage and CreateSandboxAuto.  arg[p].env is the value of *)
(* OPENAI_API_KEY when the call is made, arg[p].body the code to look at.     *)

ApiKeys == {"", "sk-test"}

\* What CreateChatCompletion comes back with: an error, or the choices' contents
NoChoices == <<>>
GptResponses ==
    {[err |-> Err("api error"), choices |-> NoChoices],
     [err |-> Nil, choices |-> NoChoices],
     [err |-> Nil, choices |-> <<"python">>],
     [err |-> Nil, choices |-> <<" Python\n">>],
     [err |-> Nil, choices |-> <<"JavaScript">>],
     [err |-> Nil, choices |-> <<"cobol">>]}

\* strings.TrimSpace(strings.ToLower(content)) on the contents above
TrimLower(content) ==
    CASE content = " Python\n" -> "python"
      [] content = "JavaScript" -> "javascript"
      [] OTHER                  -> content

\* The error for a missing key as the tests of the package expect it.
MissingKeyTestMessage == "OPENAI_API_KEY environment variable is required"

MissingKeyMessage ==
    "OPENAI_API_KEY environment variable is required for automatic language detection"

DetectLanguage(apiKey, resp) ==
    IF apiKey = "" THEN [lang |-> "", err |-> Err(MissingKeyMessage)]
    ELSE IF resp.err # Nil THEN [lang |-> "", err |-> resp.err]
    ELSE IF Len(resp.choices) = 0 THEN [lang |-> "", err |-> Err("no response from GPT API")]
    ELSE LET detectedLang == TrimLower(resp.choices[1]) IN
         CASE detectedLang \in {"python", "go", "java", "ruby", "php", "rust"} ->
                 [lang |-> detectedLang, err |-> Nil]
           [] detectedLang \in {"node", "javascript", "js"} ->
                 [lang |-> "node", err |-> Nil]
           [] OTHER ->
                 [lang |-> "",
                  err |-> Err("unable to detect supported programming language from code")]

AutoDetectLanguage(p) ==
    /\ \E k \in ApiKeys, b \in SdkBodies :
          Begin(p, "DetectLanguage", [NoArg EXCEPT !.body = b, !.env = k], "au_detect")
    /\ UNCHANGED <<pods, sandboxes, mu, hnd, destroyed, obs>>

AutoCreateSandbox(p) ==
    /\ \E n \in SdkNames, k \in ApiKeys, b \in SdkBodies :
          Begin(p, "CreateSandboxAuto", [NoArg EXCEPT !.name = n, !.body = b, !.env = k],
                "au_detect")
    /\ UNCHANGED <<pods, sandboxes, mu, hnd, destroyed, obs>>

\* DetectLanguage(code); CreateSandboxAuto returns its error or calls CreateSandbox
AutoDetect(p) ==
    /\ pc[p] = "au_detect"
    /\ \E resp \in GptResponses :
         LET r == DetectLanguage(arg[p].env, resp) IN
         IF r.err # Nil \/ op[p] = "DetectLanguage"
         THEN /\ ret' = [ret EXCEPT ![p] = [NoRet EXCEPT !.err = r.err, !.lang = r.lang]]
              /\ pc' = [pc EXCEPT ![p] = "idle"]
              /\ UNCHANGED arg
         ELSE /\ arg' = [arg EXCEPT ![p].lang = r.lang]
              /\ pc' = [pc EXCEPT ![p] = "cs_lookup"]
              /\ UNCHANGED ret
    /\ UNCHANGED <<pods, sandboxes, mu, op, hnd, loc, wait, trace, destroyed, obs>>

NextAuto ==
    \/ PodProgress
    \/ \E p \in SdkProcs : AutoDetectLanguage(p)
    \/ \E p \in SdkProcs : AutoCreateSandbox(p)
    \/ \E p \in SdkProcs : AutoDetect(p)
    \/ \E p \in SdkProcs : CreateLookup(p)
    \/ \E p \in SdkProcs : CreateSubmit(p)
    \/ \E p \in SdkProcs : WaitCheck(p)
    \/ \E p \in SdkProcs : WaitFetch(p)
    \/ \E p \in SdkProcs : WaitSleep(p)
    \/ \E p \in SdkProcs : CreateReady(p)
    \/ \E p \in SdkProcs : SdkDestroy(p)
    \/ \E p \in SdkProcs : DestroyDelete(p)

SpecAuto == Init /\ [][NextAuto]_vars

-----------------------------------------------------------------------------
(* A user of the SDK who gives CreateSandbox lists of options, one sandbox *)
(* at a time.                                                              *)

TeamLabels == [team |-> "x"]
Options == {StrOpt("namespace", "ns1"), StrOpt("namespace", "default"),
            MapOpt("labels", TeamLabels)}
OptLists == UNION {[1..n -> Options] : n \in 0..MaxOpts}

\* This user makes a sandbox only when the cluster holds no pod.
OptsCreateSandbox(p) ==
    /\ DOMAIN pods = {}
    /\ \E n \in SdkNames, l \in UserLangs, o \in OptLists :
          Begin(p, "CreateSandbox", [NoArg EXCEPT !.name = n, !.lang = l, !.opts = o],
                "cs_lookup")
    /\ UNCHANGED <<pods, sandboxes, mu, hnd, destroyed, obs>>

NextOpts ==
    \/ PodProgress
    \/ \E p \in SdkProcs : OptsCreateSandbox(p)
    \/ \E p \in SdkProcs : CreateLookup(p)
    \/ \E p \in SdkProcs : CreateSubmit(p)
    \/ \E p \in SdkProcs : WaitCheck(p)
    \/ \E p \in SdkProcs : WaitFetch(p)
    \/ \E p \in SdkProcs : WaitSleep(p)
    \/ \E p \in SdkProcs : CreateReady(p)
    \/ \E p \in SdkProcs : UserRun(p)
    \/ \E p \in SdkProcs : RunExec(p)
    \/ \E p \in SdkProcs : UserDestroy(p)
    \/ \E p \in SdkProcs : DestroyDelete(p)

SpecOpts == Init /\ [][NextOpts]_vars

-----------------------------------------------------------------------------
(* Properties *)

InWait(at) == at \in {"w_check", "w_get", "w_sleep"}

\* The pod a process waits for, as the cluster has it.
WaitedKey(p) == Key(NsOr(loc[p].ns, DefaultNamespace), loc[p].pod)

\* C3: WaitForPodReady returns nil only in a step that fetched the pod's status
\* and found the pod, at that moment, with its Ready condition True.
C3_SuccessOnlyWhenReady ==
    [][\A p \in ClientProcs :
          (InWait(pc[p]) /\ ~InWait(pc'[p]) /\ wait'[p].err = Nil)
          => /\ pc[p] = "w_get"
             /\ WaitedKey(p) \in DOMAIN pods
             /\ pods[WaitedKey(p)].status = "Ready"
             /\ wait'[p].got
             /\ \E i \in DOMAIN wait'[p].seen : wait'[p].seen[i] = Cond("Ready", "True")]_vars

\* A wait that came back with nil after at least one sleep.
C3_Witness ==
    \E p \in ClientProcs :
        /\ op[p] = "WaitForPodReady" /\ pc[p] = "idle"
        /\ wait[p].err = Nil /\ wait[p].got /\ wait[p].polls > 0

\* C4: no wait is still going on, or returns, later than its deadline plus one
\* poll interval.
C4_NeverPastDeadlinePlusInterval ==
    \A p \in ClientProcs :
        op[p] = "WaitForPodReady" => wait[p].elapsed <= wait[p].timeout + PollInterval

\* The languages the specification lists as supported.
SupportedLanguages == {"go", "python", "node", "java", "ruby", "php", "rust"}

\* The delete a Destroy sent was answered with "not found".
DeleteNotFound(p) ==
    /\ Len(trace[p]) = 1
    /\ trace[p][1].call = "DeletePod"
    /\ Cause(trace[p][1].err) = NotFound(trace[p][1].key[2])

\* C1: a Destroy that follows a successful Destroy of the same handle, and whose
\* delete the cluster answers with "not found", returns no error.
C1_SecondDestroyNoError ==
    \A p \in SdkProcs :
        (op[p] = "Destroy" /\ pc[p] = "idle" /\ ret[p].again /\ DeleteNotFound(p))
        => ret[p].err = Nil

\* C5: CreateSandbox with an unsupported language sends no request, starts no
\* wait and returns the resolution error and no handle.
C5_UnsupportedLanguageStopsAtLookup ==
    \A p \in SdkProcs :
        (op[p] = "CreateSandbox" /\ arg[p].lang \notin SupportedLanguages)
        => /\ pc[p] \in {"cs_lookup", "idle"}
           /\ trace[p] = <<>>
           /\ wait[p] = NoWait
           /\ pc[p] = "idle" => /\ ret[p].err = Err("unsupported language: " \o arg[p].lang)
                                /\ ret[p].h = NoHandle

\* CreateSandbox("a", "cobol") has returned.
C5_Witness ==
    \E p \in SdkProcs :
        /\ op[p] = "CreateSandbox" /\ arg[p].lang = "cobol" /\ pc[p] = "idle"
        /\ ret[p].err # Nil

\* The step of Exec a command line belongs to.
ExecStep(words) ==
    IF words # <<>> /\ words[1] = "cat" THEN "write"
    ELSE IF words # <<>> /\ words[1] = "chmod" THEN "chmod"
    ELSE "run"

\* C9: the requests of one Exec are an initial part of write, chmod, run; only
\* the last of them can have failed, and then Exec returns that error and no
\* output; Exec returns without error only after all three.
C9_ExecStepsInOrderAbortOnFailure ==
    \A p \in SdkProcs :
        op[p] = "Exec" =>
           LET t == trace[p] IN
           /\ Len(t) <= 3
           /\ \A i \in DOMAIN t :
                 /\ t[i].call = "Exec"
                 /\ ExecStep(t[i].words) = <<"write", "chmod", "run">>[i]
                 /\ i < Len(t) => t[i].err = Nil
           /\ (pc[p] = "idle" /\ t # <<>> /\ t[Len(t)].err # Nil)
                 => ret[p].err = t[Len(t)].err /\ ret[p].out = <<>>
           /\ (pc[p] = "idle" /\ ret[p].err = Nil)
                 => Len(t) = 3 /\ t[3].err = Nil

\* An Exec that came back after its chmod failed.
C9_Witness ==
    \E p \in SdkProcs :
        /\ op[p] = "Exec" /\ pc[p] = "idle"
        /\ Len(trace[p]) = 2 /\ trace[p][2].err # Nil /\ ret[p].err # Nil

\* C10: the command of the third step of Exec names the file the first step wrote.
C10_InterpreterRunsWrittenFile ==
    \A p \in SdkProcs :
        (op[p] = "Exec" /\ Len(trace[p]) = 3)
        => FileArg(trace[p][3].words) = FileArg(trace[p][1].words)

\* C2: a destroy_sandbox that found the handle does not return straight after
\* Destroy with the name still in the registry, whatever Destroy returned.
C2_DestroyRemovesWhateverDeleteSaid ==
    [][\A p \in Procs :
          (op[p] = "destroy_sandbox" /\ pc[p] = "mc_destroyed" /\ pc'[p] = "idle")
          => arg[p].name \notin DOMAIN sandboxes']_vars

\* C6: for a supported language LanguageLookup and DockerImage give an image
\* and no error, for any other string an error; ToLanguage and IsValid accept
\* exactly the supported languages; the same call gives the same answer.
C6_ResolverTotalAndDeterministic ==
    \A i \in DOMAIN calls :
        LET c == calls[i] IN
        /\ c.fn \in {"LanguageLookup", "DockerImage"} =>
              IF c.arg \in SupportedLanguages
              THEN c.err = Nil /\ c.str # ""
              ELSE c.err # Nil
        /\ c.fn = "ToLanguage" =>
              IF c.arg \in SupportedLanguages
              THEN c.err = Nil /\ c.str = c.arg
              ELSE c.err # Nil
        /\ c.fn = "IsValid" => (c.valid <=> c.arg \in SupportedLanguages)
        /\ \A j \in DOMAIN calls :
              (calls[j].fn = c.fn /\ calls[j].arg = c.arg) => calls[j] = c

\* LanguageLookup("rust") called twice.
C6_Witness ==
    /\ Len(calls) >= 2
    /\ calls[1].fn = "LanguageLookup" /\ calls[1].arg = "rust" /\ calls[1].err = Nil
    /\ calls[2] = calls[1]

\* C7: what ListSandboxes and GetSandbox read under the lock: the list holds
\* exactly the names whose last mutating call was AddSandbox, each once, and
\* GetSandbox finds a name exactly when it is one of them.
C7_ListAndGetFollowLastMutation ==
    \A p \in Procs :
        pc[p] = "reg_unlock" =>
           /\ loc[p].m = "List" =>
                 /\ {loc[p].names[i] : i \in DOMAIN loc[p].names} = added
                 /\ Len(loc[p].names) = Cardinality(added)
           /\ loc[p].m = "Get" =>
                 /\ loc[p].found <=> arg[p].name \in added
                 /\ loc[p].found => loc[p].h.name = arg[p].name

\* A list of one name read after the other name was added and removed again.
C7_Witness ==
    \E p, q \in Procs :
        /\ pc[p] = "reg_unlock" /\ loc[p].m = "List" /\ loc[p].names = <<"b">>
        /\ op[q] = "Remove" /\ arg[q].name = "a" /\ pc[q] = "idle"

InCS(p) == pc[p] \in {"reg_body", "reg_unlock"}

ClusterCall(p) == pc[p] \in {"cs_create", "w_check", "w_get", "w_sleep", "run_exec", "de_delete"}

\* C8: while AddSandbox or RemoveSandbox is inside its critical section no other
\* registry method is inside; a process holds the lock only inside a registry
\* method, so never during a cluster call.
C8_WriterExcludesAndNoLockAcrossCluster ==
    \A p \in Procs :
        /\ (InCS(p) /\ loc[p].m \in {"Add", "Remove"})
              => \A q \in Procs \ {p} : ~InCS(q)
        /\ ClusterCall(p) => (mu.writer # p /\ p \notin mu.readers)
        /\ InCS(p) <=> (mu.writer = p \/ p \in mu.readers)

\* Two readers inside at once.
C8_Witness ==
    /\ InCS("p1") /\ InCS("p2")
    /\ loc["p1"].m = "Get" /\ loc["p2"].m = "List"
    /\ mu.readers = {"p1", "p2"}

\* NewClient's error: no config to be had, or a config the client rejects.
NoClient(e) ==
    e # Nil /\ e[1] \in {"failed to create kubernetes config",
                         "failed to create kubernetes client"}

\* C11: a Run that has returned gave either an error and no result, exactly
\* when it had no client or its exec request failed, or no error and a result
\* with exit code 0 and an empty error text.
C11_RunErrorOrZeroExitResult ==
    \A p \in SdkProcs :
        (op[p] = "Run" /\ pc[p] = "idle") =>
           IF trace[p] = <<>>
           THEN NoClient(ret[p].err) /\ ret[p].res = <<>>
           ELSE
           /\ Len(trace[p]) = 1
           /\ IF trace[p][1].err # Nil
              THEN ret[p].err = trace[p][1].err /\ ret[p].res = <<>>
              ELSE /\ ret[p].err = Nil
                   /\ Len(ret[p].res) = 1
                   /\ ret[p].res[1].ExitCode = 0
                   /\ ret[p].res[1].Error = ""
                   /\ ret[p].res[1].Result = ret[p].out

\* A Run that came back after its stream broke.
C11_Witness ==
    \E p \in SdkProcs :
        /\ op[p] = "Run" /\ pc[p] = "idle"
        /\ ErrorText(ret[p].err) =
              "exec failed: failed to execute command in pod: StreamBroken, stderr: "
        /\ ret[p].res = <<>>

\* The pod names the callers of the model wait for.
PodNames ==
    {PodName(n) : n \in Names} \cup ClientPods \cup ExecPods \cup
    {SandboxID(t) : t \in RestSeconds}

TimedOut(e) == \E n \in PodNames : Cause(e) = TimeoutMessage(n)

\* C12: when the wait of CreateSandbox ends with the timeout error, CreateSandbox
\* returns that error and no handle, has sent nothing but the CreatePod request
\* and leaves the pod in the cluster; create_sandbox then returns a failure
\* without touching the registry.
C12_ReadinessTimeoutLeavesPodUnregistered ==
    [][\A p \in Procs :
          /\ (pc[p] = "cs_ready" /\ pc'[p] # "cs_ready" /\ TimedOut(wait[p].err))
                => /\ ret'[p].err = wait[p].err
                   /\ ret'[p].h = NoHandle
                   /\ hnd' = hnd
                   /\ Len(trace'[p]) = 1
                   /\ trace'[p][1].call = "CreatePod" /\ trace'[p][1].err = Nil
                   /\ pods' = pods
          /\ (op[p] = "create_sandbox" /\ pc[p] = "mc_created" /\ pc'[p] # "mc_created"
                /\ TimedOut(ret[p].err))
                => /\ pc'[p] = "idle"
                   /\ ~ret'[p].success
                   /\ ret'[p].msg = TimeoutMessage(PodName(arg[p].name))
                   /\ sandboxes' = sandboxes
                   /\ pods' = pods]_vars

\* create_sandbox has failed on the timeout: the pod is there, the name is not
\* registered.
C12_Witness ==
    \E p \in Procs :
        /\ op[p] = "create_sandbox" /\ pc[p] = "idle"
        /\ ~ret[p].success /\ ret[p].msg = TimeoutMessage(PodName(arg[p].name))
        /\ Key(DefaultNamespace, PodName(arg[p].name)) \in DOMAIN pods
        /\ arg[p].name \notin DOMAIN sandboxes

\* C13: a Run or Exec on a handle that a Destroy has succeeded on gets no
\* command executed: each of its exec requests fails.
C13_DestroyedHandleExecutesNothing ==
    \A p \in UserProcs :
        (p \in destroyed /\ op[p] \in {"Run", "Exec"})
        => \A i \in DOMAIN trace[p] : trace[p][i].err # Nil

\* The pods in the cluster that back the sandbox of a name.
BackingPods(name) == {k \in DOMAIN pods : k[2] = PodName(name)}

\* C14: a sandbox name has at most one backing pod in the cluster.
C14_OnePodPerName ==
    \A n \in SdkNames : Cardinality(BackingPods(n)) <= 1

\* The pod CreateSandbox made for the handle a user holds.
HandlePod(p) == Key(NamespaceOf(hnd[p].opts), PodName(hnd[p].name))

\* C15: the step in which a Run talks to the cluster sends one exec request, to
\* the pod CreateSandbox made for the handle, or no request at all when it has
\* no client to send one with, and neither adds nor removes a pod nor changes
\* the status, image, command or labels of one.
C15_RunLeavesPodsInPlace ==
    [][\A p \in SdkProcs :
          (op[p] = "Run" /\ pc[p] = "run_exec" /\ pc'[p] # "run_exec")
          => /\ \/ /\ Len(trace'[p]) = 1
                   /\ trace'[p][1].call = "Exec"
                   /\ trace'[p][1].key = HandlePod(p)
                \/ /\ trace'[p] = <<>>
                   /\ NoClient(ret'[p].err)
             /\ DOMAIN pods' = DOMAIN pods
             /\ \A k \in DOMAIN pods :
                   /\ pods'[k].status = pods[k].status
                   /\ pods'[k].image = pods[k].image
                   /\ pods'[k].command = pods[k].command
                   /\ pods'[k].labels = pods[k].labels]_vars

\* A Run that succeeded, its pod still there and Ready.
C15_Witness ==
    \E p \in SdkProcs :
        /\ op[p] = "Run" /\ pc[p] = "idle" /\ ret[p].err = Nil
        /\ HandlePod(p) \in DOMAIN pods
        /\ pods[HandlePod(p)].status = "Ready"

\* C16: with OPENAI_API_KEY unset, DetectLanguage and CreateSandboxAuto return
\* the error "OPENAI_API_KEY environment variable is required" and
\* CreateSandboxAuto has sent nothing to the cluster.
C16_MissingKeyMessageAndNoPod ==
    \A p \in SdkProcs :
        (op[p] \in {"DetectLanguage", "CreateSandboxAuto"} /\ pc[p] = "idle"
            /\ arg[p].env = "")
        => /\ ret[p].err = Err(MissingKeyTestMessage)
           /\ trace[p] = <<>>

\* The language identifiers the tests and the README give as supported.
PresentedLanguages == {"python", "javascript", "go", "ruby"}

\* C17: CreateSandbox gives no error for python, javascript, go and ruby, and
\* an error for an unknown identifier.
C17_PresentedLanguagesResolve ==
    \A i \in DOMAIN calls :
        calls[i].fn = "CreateSandbox" =>
           /\ calls[i].arg \in PresentedLanguages => calls[i].err = Nil
           /\ calls[i].arg = "cobol" => calls[i].err # Nil

\* The lists that hold the options of a list in another order.
Perms(o) ==
    {[i \in DOMAIN o |-> o[f[i]]] :
        f \in {g \in [DOMAIN o -> DOMAIN o] : \A i, j \in DOMAIN o : i # j => g[i] # g[j]}}

DistinctNames(o) == \A i, j \in DOMAIN o : i # j => o[i].Name # o[j].Name

\* The labels CreatePod gives the pod of a CreateSandbox with options o.
PodLabels(name, o) ==
    SetLabel(SetLabel(SdkLabels(o), "app", PodName(name)), "created-by", "sandboxed-cli")

\* What a call did with the options o agrees with every reordering of them: the
\* namespace its request went to, and the labels of the pod it made.
OrderInsensitive(p, o) ==
    \A q \in Perms(o) :
        /\ trace[p] # <<>> => trace[p][1].key[1] = NamespaceOf(q)
        /\ (op[p] = "CreateSandbox" /\ InWait(pc[p]) /\ trace[p][1].key \in DOMAIN pods)
              => pods[trace[p][1].key].labels = PodLabels(arg[p].name, q)

\* The options a call works with: its argument, or those kept in the handle.
OptsOf(p) == IF op[p] = "CreateSandbox" THEN arg[p].opts ELSE loc[p].h.opts

\* C18 as stated: for every list of options, CreateSandbox, Run and Destroy do
\* the same as they would for any reordering of the list.
C18_AnyOptionListOrderInsensitive ==
    \A p \in SdkProcs :
        op[p] \in {"CreateSandbox", "Run", "Destroy"} => OrderInsensitive(p, OptsOf(p))

\* C18 amended: the same for every list of options with pairwise distinct names.
C18_DistinctOptionsOrderInsensitive ==
    \A p \in SdkProcs :
        (op[p] \in {"CreateSandbox", "Run", "Destroy"} /\ DistinctNames(OptsOf(p)))
        => OrderInsensitive(p, OptsOf(p))

\* A Destroy done on a handle made with labels first and the namespace second.
C18_Witness ==
    \E p \in SdkProcs :
        /\ op[p] = "Destroy" /\ pc[p] = "idle" /\ ret[p].err = Nil
        /\ hnd[p].opts = <<MapOpt("labels", TeamLabels), StrOpt("namespace", "ns1")>>
        /\ trace[p][1].key[1] = "ns1"

\* What made a finished create-sandbox request fail, read off what the handler
\* did: no image for the language, a rejected CreatePod, a wait that timed out.
RestErrorKind(p) ==
    CASE arg[p].lang # "" /\ getImageForLanguage(arg[p].lang) = "" -> "resolution"
      [] trace[p] # <<>> /\ trace[p][1].err # Nil                    -> "submission"
      [] TimedOut(wait[p].err)                                       -> "readiness-timeout"
      [] OTHER                                                       -> "other"

RestCreateFailed(p) ==
    /\ op[p] = "createSandboxHandler"
    /\ pc[p] = "idle"
    /\ ~ret[p].success
    /\ RestErrorKind(p) \in {"resolution", "submission", "readiness-timeout"}

\* C19: two failed create-sandbox requests of the REST facade that failed for
\* different kinds of error (resolution, submission, readiness timeout) are
\* answered with different HTTP statuses.
C19_ErrorKindsGetDifferentStatus ==
    \A p, q \in RestProcs :
        (/\ RestCreateFailed(p)
         /\ RestCreateFailed(q)
         /\ RestErrorKind(p) # RestErrorKind(q))
        => ret[p].status # ret[q].status

\* The pods in the cluster that a CreateSandbox call still in progress or just
\* finished has submitted.
SubmittedBySdk ==
    {trace[p][1].key : p \in {q \in SdkProcs :
        /\ op[q] \in {"CreateSandbox", "CreateSandboxAuto"}
        /\ trace[q] # <<>>
        /\ trace[q][1].call = "CreatePod"
        /\ trace[q][1].err = Nil}} \cap DOMAIN pods

\* C20: every pod that CreateSandbox has submitted to the cluster carries the
\* label created-by=sandboxed-sdk, whatever options the call was given.
C20_SdkPodsCarrySdkLabel ==
    \A k \in SubmittedBySdk :
        /\ "created-by" \in DOMAIN pods[k].labels
        /\ pods[k].labels["created-by"] = "sandboxed-sdk"

\* CreateAndRunPod has been called by p and has returned.
RunReturned(p) ==
    /\ op[p] \in {"CreateAndRunPod", "executeCode"}
    /\ pc[p] \in {"idle", "ex_done"}
    /\ trace[p] # <<>>

\* CreateAndRunPod is in progress for p.
RunInProgress(p) ==
    /\ op[p] \in {"CreateAndRunPod", "executeCode"}
    /\ pc[p] \in {"carp_create", "w_check", "w_get", "w_sleep", "carp_ready", "carp_exec",
                  "carp_defer"}

Deletes(p) == {i \in DOMAIN trace[p] : trace[p][i].call = "DeletePod"}

\* C21: a CreateAndRunPod call with cleanup on whose CreatePod succeeded has, when
\* it returns, issued exactly one delete, for the pod it created and as its last
\* request, whether it succeeded, timed out waiting or failed a command; a call
\* whose CreatePod failed or whose cleanup is off has issued none, and no delete
\* is issued before the return.
C21_OneDeleteOnEveryPathAfterCreate ==
    \A p \in ExecProcs :
        /\ RunInProgress(p) => Deletes(p) = {}
        /\ RunReturned(p) =>
              IF loc[p].cleanup /\ trace[p][1].err = Nil
              THEN /\ Deletes(p) = {Len(trace[p])}
                   /\ trace[p][Len(trace[p])].key = trace[p][1].key
              ELSE Deletes(p) = {}

\* A request to /execute that timed out waiting and a direct call with cleanup
\* whose second command failed have both returned after their delete.
C21_Witness ==
    /\ \E p \in ExecRequests :
          /\ RunReturned(p) /\ pc[p] = "idle" /\ TimedOut(wait[p].err)
          /\ Len(trace[p]) = 2 /\ trace[p][2].call = "DeletePod"
    /\ \E p \in RunCallers :
          /\ RunReturned(p) /\ loc[p].cleanup /\ Len(loc[p].results) = 1
          /\ Cause(ret[p].err) = ExitCode(1) \o ", stderr: "
          /\ Len(trace[p]) = 4 /\ trace[p][4].call = "DeletePod"

-----------------------------------------------------------------------------
(* ExecCommand over what the exec stream can leave behind: the bytes in the  *)
(* stdout and stderr buffers and the error ExecInPod returns.                *)

StreamErrors == {Nil,
                 Wrap("failed to create executor", Err("BadConfig")),
                 Wrap("failed to execute command in pod", Err("StreamBroken"))}
StdoutTexts == {<<>>, <<"partial">>}
StderrTexts == {<<>>, <<"oops">>}

ExecCommandCall ==
    /\ Len(calls) < MaxCalls
    /\ \E e \in StreamErrors, o \in StdoutTexts, eo \in StderrTexts :
         LET r == [out |-> o, errout |-> eo, err |-> e]
         IN calls' = Append(calls, [fn |-> "ExecCommand", stream |-> r,
                                    out |-> ExecOutput(r).out, err |-> ExecOutput(r).err])
    /\ UNCHANGED <<pods, sandboxes, mu, pc, op, arg, hnd, loc, wait, ret, trace, destroyed, added,
                 k8sClient>>

NextStream == ExecCommandCall

SpecStream == Init /\ [][NextStream]_vars

\* C22: when the exec transport fails, ExecCommand returns an empty output and an
\* error, whatever the stdout buffer holds, and the error message contains the
\* transport error and the content of the stderr buffer.
C22_TransportErrorNoPartialOutput ==
    \A i \in DOMAIN calls :
        calls[i].stream.err # Nil =>
            /\ calls[i].out = <<>>
            /\ calls[i].err # Nil
            /\ ErrorText(calls[i].err) =
                  "exec failed: " \o ErrorText(calls[i].stream.err) \o
                  ", stderr: " \o Text(calls[i].stream.errout)

\* A broken stream that had delivered output and error text.
C22_Witness ==
    \E i \in DOMAIN calls :
        /\ Cause(calls[i].stream.err) = "StreamBroken"
        /\ calls[i].stream.out = <<"partial">>
        /\ calls[i].stream.errout = <<"oops">>
        /\ calls[i].out = <<>>

-----------------------------------------------------------------------------
(* pkg/k8sclient: the read loop of GetPodLogs over a log stream.  A stream   *)
(* is the sequence of what its Read calls return: the bytes put in the      *)
(* buffer and the error; after its last element Read returns 0 and io.EOF.  *)

Chunks == {"a", "b"}
Read(bytes, err) == [bytes |-> bytes, err |-> err]

\* Every split of a content into at most MaxReads reads, the end of the stream
\* told either with the last bytes or by a read of its own.
LogStreams ==
    UNION {
        {[i \in 1..n |-> Read(c[i], IF i = n /\ eofWithData THEN "EOF" ELSE "nil")] :
            c \in [1..n -> Chunks], eofWithData \in BOOLEAN}
        : n \in 0..MaxReads}

RECURSIVE ReadLoop(_, _, _)
\* for { numBytes, err := podLogs.Read(buf); ...; logs += string(buf[:numBytes]) }
ReadLoop(reads, i, logs) ==
    IF i > Len(reads) THEN logs
    ELSE IF reads[i].bytes = "" THEN logs
    ELSE IF reads[i].err # "nil" THEN logs
    ELSE ReadLoop(reads, i + 1, logs \o reads[i].bytes)

LogPods == {"pod-a"}
\* what req.Stream returns next to the stream
StreamOpens == {Nil, Err("ServerError")}

GetPodLogs(name, opened, reads) ==
    IF opened # Nil
    THEN [logs |-> "", err |-> Wrap("failed to get logs for pod " \o name, opened)]
    ELSE [logs |-> ReadLoop(reads, 1, ""), err |-> Nil]

RECURSIVE Delivered(_)
\* All the bytes the stream delivered, in order.
Delivered(reads) ==
    IF reads = <<>> THEN "" ELSE reads[1].bytes \o Delivered(Tail(reads))

GetPodLogsCall ==
    /\ Len(calls) < MaxCalls
    /\ \E name \in LogPods, opened \in StreamOpens, reads \in LogStreams :
         LET r == GetPodLogs(name, opened, reads)
         IN calls' = Append(calls, [fn |-> "GetPodLogs", name |-> name, opened |-> opened,
                                    reads |-> reads, logs |-> r.logs, err |-> r.err])
    /\ UNCHANGED <<pods, sandboxes, mu, pc, op, arg, hnd, loc, wait, ret, trace, destroyed, added,
                 k8sClient>>

NextLogs == GetPodLogsCall

SpecLogs == Init /\ [][NextLogs]_vars

\* C23: the text GetPodLogs returns is the concatenation of all the bytes the
\* stream delivered, however the content is split into reads and also when the
\* last read brings bytes together with the end of the stream.
C23_LogsAreAllDeliveredBytes ==
    \A i \in DOMAIN calls :
        calls[i].opened = Nil => calls[i].logs = Delivered(calls[i].reads)

-----------------------------------------------------------------------------
(* list_sandboxes next to direct callers of the SandboxManager. *)

NextList ==
    \/ \E p \in Procs : RegCall(p)
    \/ \E p \in Procs : ToolListSandboxes(p)
    \/ \E p \in Procs : RegLock(p)
    \/ \E p \in Procs : RegBody(p)
    \/ \E p \in Procs : RegUnlock(p)
    \/ \E p \in Procs : ToolListDone(p)

SpecList == Init /\ [][NextList]_vars

Lists(p) == op[p] \in {"List", "list_sandboxes"}

\* C24: the list ListSandboxes builds holds each name registered at the instant
\* of the read exactly once; it is returned as read; once returned it stays as it
\* is whatever AddSandbox and RemoveSandbox do later; and the count list_sandboxes
\* reports is the length of the list it returns.
C24_ListIsSnapshot ==
    [][\A p \in Procs :
          /\ (Lists(p) /\ pc[p] = "reg_body" /\ pc'[p] = "reg_unlock") =>
                /\ {loc'[p].names[i] : i \in DOMAIN loc'[p].names} = DOMAIN sandboxes
                /\ Len(loc'[p].names) = Cardinality(DOMAIN sandboxes)
          /\ (Lists(p) /\ pc[p] # "idle" /\ pc'[p] = "idle") =>
                /\ ret'[p].names = loc[p].names
                /\ op[p] = "list_sandboxes" => ret'[p].count = Len(ret'[p].names)
          /\ (Lists(p) /\ pc[p] = "idle" /\ pc'[p] = "idle") => ret'[p] = ret[p]
      ]_vars

\* list_sandboxes has returned both names, and a RemoveSandbox that took one of
\* them out of the registry has finished since.
C24_Witness ==
    \E p, q \in Procs :
        /\ op[p] = "list_sandboxes" /\ pc[p] = "idle"
        /\ Len(ret[p].names) = 2 /\ ret[p].count = 2
        /\ op[q] = "Remove" /\ pc[q] = "idle"
        /\ Cardinality(DOMAIN sandboxes) = 1

\* p has passed the registry and is about to send, or is sending, its exec.
ExecInFlight(p) == op[p] = "run_code" /\ pc[p] = "run_exec"

\* C25: nothing serializes Run on one sandbox: a run_code call at its exec holds
\* no lock of the registry, and when two calls on the same name are at their
\* exec together each of them can go ahead without the other.
C25_RunsOnOneSandboxNotSerialized ==
    \A p \in Procs :
        ExecInFlight(p) =>
            /\ mu.writer # p /\ p \notin mu.readers
            /\ \A q \in Procs \ {p} :
                  (ExecInFlight(q) /\ loc[q].h.name = loc[p].h.name) =>
                      ENABLED RunExec(p) /\ ENABLED RunExec(q)

\* Two run_code calls on the same sandbox with their exec in flight together.
C25_Witness ==
    \E p, q \in Procs :
        /\ p # q
        /\ ExecInFlight(p) /\ ExecInFlight(q)
        /\ loc[p].h.name = "a" /\ loc[q].h.name = "a"
        /\ loc[p].h.id = loc[q].h.id

-----------------------------------------------------------------------------
(* pkg/sdk: NewInstance, a handle for a pod that exists already, next to     *)
(* CreateSandbox.  The user holds the handle made last.                      *)

InstanceIds == {"sandboxed-a"}

\* lcVal := &LanguageContainer{impl: s, opts: opts}; s.id = id
NewInstance(id, opts) == Handle("", "", "", opts, id)

UserNewInstance(p) ==
    /\ pc[p] = "idle"
    /\ \E id \in InstanceIds :
          /\ hnd' = [hnd EXCEPT ![p] = NewInstance(id, <<>>)]
          /\ arg' = [arg EXCEPT ![p] = [NoArg EXCEPT !.name = id]]
          /\ ret' = [ret EXCEPT ![p] = [NoRet EXCEPT !.h = NewInstance(id, <<>>)]]
    /\ op' = [op EXCEPT ![p] = "NewInstance"]
    /\ loc' = [loc EXCEPT ![p] = NoLoc]
    /\ wait' = [wait EXCEPT ![p] = NoWait]
    /\ trace' = [trace EXCEPT ![p] = <<>>]
    /\ destroyed' = destroyed \ {p}
    /\ UNCHANGED <<pods, sandboxes, mu, pc, obs>>

NextInst ==
    \/ PodProgress
    \/ \E p \in SdkProcs : UserCreateSandbox(p)
    \/ \E p \in SdkProcs : UserNewInstance(p)
    \/ \E p \in SdkProcs : CreateLookup(p)
    \/ \E p \in SdkProcs : CreateSubmit(p)
    \/ \E p \in SdkProcs : WaitCheck(p)
    \/ \E p \in SdkProcs : WaitFetch(p)
    \/ \E p \in SdkProcs : WaitSleep(p)
    \/ \E p \in SdkProcs : CreateReady(p)
    \/ \E p \in SdkProcs : UserRun(p)
    \/ \E p \in SdkProcs : RunExec(p)
    \/ \E p \in SdkProcs : SdkExec(p)
    \/ \E p \in SdkProcs : ExecWrite(p)
    \/ \E p \in SdkProcs : ExecChmod(p)
    \/ \E p \in SdkProcs : ExecRun(p)
    \/ \E p \in SdkProcs : UserDestroy(p)
    \/ \E p \in SdkProcs : DestroyDelete(p)

SpecInst == Init /\ [][NextInst]_vars

\* The pod Run and Exec on handle h execute in: podName = s.id
RunPod(h) == Key(NamespaceOf(h.opts), h.id)

\* C26: a finished Destroy has sent its delete for the pod that Run and Exec on
\* the same handle execute in, for a handle from CreateSandbox and for a handle
\* from NewInstance alike.
C26_DestroyDeletesThePodRunUses ==
    \A p \in SdkProcs :
        (op[p] = "Destroy" /\ pc[p] = "idle" /\ trace[p] # <<>>)
        => /\ trace[p][1].call = "DeletePod"
           /\ trace[p][1].key = RunPod(loc[p].h)

-----------------------------------------------------------------------------
(* Concurrent create_sandbox calls for one name, with and without the        *)
(* namespace argument.                                                       *)

CreateNamespaces == {"", "ns1"}

ToolCreateSandboxIn(p) ==
    \E n \in McpNames, ns \in CreateNamespaces :
        ToolCall(p, "create_sandbox",
                 [NoArg EXCEPT !.name = n, !.lang = "python", !.ns = ns, !.opts = McpOpts(ns, <<>>)],
                 "Get")

NextCreate ==
    \/ PodProgress
    \/ \E p \in Procs : ToolCreateSandboxIn(p)
    \/ \E p \in Procs : ToolCreateCheck(p)
    \/ \E p \in Procs : CreateLookup(p)
    \/ \E p \in Procs : CreateSubmit(p)
    \/ \E p \in Procs : WaitCheck(p)
    \/ \E p \in Procs : WaitFetch(p)
    \/ \E p \in Procs : WaitSleep(p)
    \/ \E p \in Procs : CreateReady(p)
    \/ \E p \in Procs : ToolCreateDone(p)
    \/ \E p \in Procs : ToolCreateAdded(p)
    \/ \E p \in Procs : RegLock(p)
    \/ \E p \in Procs : RegBody(p)
    \/ \E p \in Procs : RegUnlock(p)

SpecCreate == Init /\ [][NextCreate]_vars

\* create_sandbox calls that have reported success.
Succeeded == {p \in Procs : op[p] = "create_sandbox" /\ pc[p] = "idle" /\ ret[p].success}

\* C27: of the create_sandbox calls for one name at most one reports success, and
\* the pod a successful call created is the pod of the handle the registry holds
\* for the name, as long as no destroy_sandbox has run.
C27_RegisteredHandleNeverOverwritten ==
    \A p \in Succeeded :
        /\ \A q \in Succeeded \ {p} : arg[q].name # arg[p].name
        /\ arg[p].name \in DOMAIN sandboxes
        /\ RunPod(sandboxes[arg[p].name]) = trace[p][1].key

\* C28: a create_sandbox call whose GetSandbox found the name returns at once
\* with failure and 'Sandbox already exists'; the call has sent no request to
\* the cluster, and neither its lookup nor its return changes the registry or
\* the pods, so the call leaves the handle of the name as it is.
C28_ExistingNameRejectedUntouched ==
    [][\A p \in Procs :
          (op[p] = "create_sandbox" /\ pc'[p] # pc[p]) =>
             /\ (pc[p] \in {"reg_lock", "reg_body", "reg_unlock"} /\ loc[p].m = "Get") =>
                   sandboxes' = sandboxes /\ trace'[p] = <<>>
             /\ (pc[p] = "mc_create" /\ loc[p].found) =>
                   /\ pc'[p] = "idle"
                   /\ ~ret'[p].success
                   /\ ret'[p].msg = "Sandbox already exists"
                   /\ trace'[p] = <<>>
                   /\ sandboxes' = sandboxes
                   /\ pods' = pods
      ]_vars

\* A create_sandbox for a registered name has been turned away.
C28_Witness ==
    \E p \in Procs :
        /\ op[p] = "create_sandbox" /\ pc[p] = "idle"
        /\ ret[p].msg = "Sandbox already exists" /\ ~ret[p].success
        /\ arg[p].name \in DOMAIN sandboxes
        /\ trace[p] = <<>>

\* C29: destroy_sandbox reports success only after its RemoveSandbox; a run_code
\* whose lookup comes when the last registry change for the name was not an
\* AddSandbox (the name was never created, or was removed by a destroy_sandbox
\* and not created again) finds nothing, reports failure with 'Sandbox not found'
\* and sends no exec.
C29_RunAfterDestroyFindsNothing ==
    [][\A p \in Procs :
          /\ (op[p] = "destroy_sandbox" /\ pc[p] # "idle" /\ pc'[p] = "idle"
                /\ ret'[p].success) =>
                pc[p] = "mc_removed"
          /\ (op[p] = "run_code" /\ pc[p] = "reg_body" /\ pc'[p] = "reg_unlock"
                /\ arg[p].name \notin added) =>
                ~loc'[p].found
          /\ (op[p] = "run_code" /\ pc[p] = "mc_run" /\ pc'[p] # pc[p] /\ ~loc[p].found) =>
                /\ pc'[p] = "idle"
                /\ ~ret'[p].success
                /\ ret'[p].msg = "Sandbox not found"
                /\ trace'[p] = <<>>
                /\ pods' = pods
      ]_vars

\* destroy_sandbox has reported success for a name that had been created, and a
\* run_code for the name has then found nothing.
C29_Witness ==
    \E p, q \in Procs :
        /\ op[p] = "destroy_sandbox" /\ pc[p] = "idle" /\ ret[p].success
        /\ op[q] = "run_code" /\ pc[q] = "idle" /\ arg[q].name = arg[p].name
        /\ ret[q].msg = "Sandbox not found" /\ ~ret[q].success /\ trace[q] = <<>>
        /\ arg[p].name \notin DOMAIN sandboxes
        /\ Len(trace[p]) = 1 /\ trace[p][1].call = "DeletePod" /\ trace[p][1].err = Nil

\* The names whose registry entry a step puts in or replaces.
Registered ==
    {n \in DOMAIN sandboxes' : n \notin DOMAIN sandboxes \/ sandboxes'[n] # sandboxes[n]}

\* C30: a name gets into the registry only by the AddSandbox of a create_sandbox
\* call for that name whose CreateSandbox returned no error, had its CreatePod
\* accepted and returned only after its poll saw the pod ready; every other step
\* of a create_sandbox call, and so a call that fails at resolution, submission
\* or readiness, leaves the registry as it was.
C30_RegisteredOnlyAfterSubmitAndReady ==
    [][/\ \A n \in Registered :
            \E q \in Procs :
               /\ op[q] = "create_sandbox" /\ arg[q].name = n
               /\ pc[q] = "reg_body" /\ loc[q].m = "Add"
               /\ ret[q].err = Nil
               /\ Len(trace[q]) = 1 /\ trace[q][1].call = "CreatePod"
               /\ trace[q][1].err = Nil /\ trace[q][1].key[2] = PodName(n)
               /\ sandboxes'[n].id = PodName(n)
       /\ \A p \in Procs :
            /\ (op[p] = "create_sandbox" /\ pc[p] = "cs_ready" /\ pc'[p] # pc[p]
                  /\ ret'[p].err = Nil) =>
                  wait[p].err = Nil /\ wait[p].got /\ PodIsReady(wait[p].seen)
            /\ (op[p] = "create_sandbox" /\ pc'[p] # pc[p]
                  /\ ~(pc[p] = "reg_body" /\ loc[p].m = "Add")) =>
                  sandboxes' = sandboxes
            /\ (op[p] = "create_sandbox" /\ pc[p] # "idle" /\ pc'[p] = "idle"
                  /\ ~ret'[p].success) =>
                  sandboxes' = sandboxes /\ pc[p] \in {"mc_create", "mc_created"}
      ]_vars

\* One create_sandbox has registered the name; another for the same name has
\* failed at submission and the entry is the first call's.
C30_Witness ==
    \E p, q \in Procs :
        /\ op[p] = "create_sandbox" /\ pc[p] = "idle" /\ ret[p].success
        /\ op[q] = "create_sandbox" /\ pc[q] = "idle" /\ ~ret[q].success
        /\ arg[q].name = arg[p].name
        /\ ret[q].msg = "failed to create pod: " \o AlreadyExists(PodName(arg[q].name))
        /\ arg[p].name \in DOMAIN sandboxes
        /\ sandboxes[arg[p].name].id = trace[p][1].key[2]

-----------------------------------------------------------------------------
(* Tool calls on distinct names: every request of p1 is for sandbox a and    *)
(* every request of p2 for sandbox b.                                        *)

NameOf(p) == IF p = "p1" THEN "a" ELSE "b"

FrameCreateSandbox(p) ==
    ToolCall(p, "create_sandbox", [NoArg EXCEPT !.name = NameOf(p), !.lang = "python"], "Get")

FrameRunCode(p) ==
    \E c \in McpCodes :
        ToolCall(p, "run_code", [NoArg EXCEPT !.name = NameOf(p), !.code = c], "Get")

FrameDestroySandbox(p) ==
    ToolCall(p, "destroy_sandbox", [NoArg EXCEPT !.name = NameOf(p)], "Get")

NextFrame ==
    \/ PodProgress
    \/ \E p \in Procs : FrameCreateSandbox(p)
    \/ \E p \in Procs : ToolCreateCheck(p)
    \/ \E p \in Procs : CreateLookup(p)
    \/ \E p \in Procs : CreateSubmit(p)
    \/ \E p \in Procs : WaitCheck(p)
    \/ \E p \in Procs : WaitFetch(p)
    \/ \E p \in Procs : WaitSleep(p)
    \/ \E p \in Procs : CreateReady(p)
    \/ \E p \in Procs : ToolCreateDone(p)
    \/ \E p \in Procs : ToolCreateAdded(p)
    \/ \E p \in Procs : FrameRunCode(p)
    \/ \E p \in Procs : ToolRunCheck(p)
    \/ \E p \in Procs : RunExec(p)
    \/ \E p \in Procs : ToolRunDone(p)
    \/ \E p \in Procs : FrameDestroySandbox(p)
    \/ \E p \in Procs : ToolDestroyCheck(p)
    \/ \E p \in Procs : DestroyDelete(p)
    \/ \E p \in Procs : ToolDestroyDone(p)
    \/ \E p \in Procs : ToolDestroyRemoved(p)
    \/ \E p \in Procs : RegLock(p)
    \/ \E p \in Procs : RegBody(p)
    \/ \E p \in Procs : RegUnlock(p)

SpecFrame == Init /\ [][NextFrame]_vars

\* The pods of the cluster that are not the pod of sandbox n, in any namespace.
PodsNotOf(ps, n) == [k \in {j \in DOMAIN ps : j[2] # "sandboxed-" \o n} |-> ps[k]]

\* The registry without its entry for n.
EntriesNotOf(map, n) == [m \in (DOMAIN map) \ {n} |-> map[m]]

\* C31: a step of a create_sandbox, run_code or destroy_sandbox call for one
\* name leaves the pods of every other name as they were (none created, deleted
\* or written to) and leaves the registry entries of every other name as they
\* were (none added, removed or replaced), whatever the other calls are doing.
C31_CallsOnOneNameLeaveOthersUntouched ==
    [][\A p \in Procs :
          (pc'[p] # pc[p] /\ (op[p] # "" \/ op'[p] # "")) =>
             LET n == IF op[p] # "" /\ pc[p] # "idle" THEN arg[p].name ELSE arg'[p].name
             IN /\ PodsNotOf(pods', n) = PodsNotOf(pods, n)
                /\ EntriesNotOf(sandboxes', n) = EntriesNotOf(sandboxes, n)
      ]_vars

\* Sandbox a was created and destroyed again while b stays registered with its
\* pod in the cluster.
C31_Witness ==
    /\ op["p1"] = "destroy_sandbox" /\ pc["p1"] = "idle" /\ ret["p1"].success
    /\ arg["p1"].name = "a" /\ "a" \notin DOMAIN sandboxes
    /\ "b" \in DOMAIN sandboxes
    /\ Key(DefaultNamespace, "sandboxed-b") \in DOMAIN pods
    /\ Key(DefaultNamespace, "sandboxed-a") \notin DOMAIN pods

-----------------------------------------------------------------------------
(* Goroutines that share one handle: CreateSandbox returns a pointer, and a  *)
(* second goroutine given that pointer calls Exec on the same sandbox.       *)

ScriptBodies == {"b1", "b2"}

ScriptCreateSandbox(p) ==
    /\ p = "p1"
    /\ hnd[p] = NoHandle
    /\ Begin(p, "CreateSandbox", [NoArg EXCEPT !.name = "a", !.lang = "python"], "cs_lookup")
    /\ UNCHANGED <<pods, sandboxes, mu, hnd, destroyed, obs>>

\* the handle s handed to another goroutine
ShareHandle(p) ==
    /\ pc[p] = "idle"
    /\ hnd[p] = NoHandle
    /\ \E q \in Procs \ {p} :
          /\ hnd[q] # NoHandle
          /\ hnd' = [hnd EXCEPT ![p] = hnd[q]]
    /\ UNCHANGED <<pods, sandboxes, mu, pc, op, arg, loc, wait, ret, trace, destroyed, obs>>

ScriptExec(p) ==
    \E b \in ScriptBodies : SdkCall(p, "Exec", [NoArg EXCEPT !.body = b], "ex_write")

NextScript ==
    \/ PodProgress
    \/ \E p \in Procs : ScriptCreateSandbox(p)
    \/ \E p \in Procs : CreateLookup(p)
    \/ \E p \in Procs : CreateSubmit(p)
    \/ \E p \in Procs : WaitCheck(p)
    \/ \E p \in Procs : WaitFetch(p)
    \/ \E p \in Procs : WaitSleep(p)
    \/ \E p \in Procs : CreateReady(p)
    \/ \E p \in Procs : ShareHandle(p)
    \/ \E p \in Procs : ScriptExec(p)
    \/ \E p \in Procs : ExecWrite(p)
    \/ \E p \in Procs : ExecChmod(p)
    \/ \E p \in Procs : ExecRun(p)

SpecScript == Init /\ [][NextScript]_vars

\* The output of the interpreter run on a script file with the given body.
RanBody(body) == <<"ran", body>>

\* C32: an Exec whose three steps all succeeded returns the output of the body
\* it was called with: what its run step executed is what its write step wrote.
C32_ExecRunsItsOwnScript ==
    \A p \in Procs :
        (op[p] = "Exec" /\ pc[p] = "idle" /\ Len(trace[p]) = 3 /\ ret[p].err = Nil)
        => ret[p].out = RanBody(arg[p].body)

-----------------------------------------------------------------------------
\* The answers GetPod can give a waiting process at this moment.
Fetches(p) == {GetPod(pods, DefaultNamespace, loc[p].pod, loc[p].ns, f) : f \in BOOLEAN}

\* C33: a status fetch of WaitForPodReady that fails ends the wait in that very
\* step with the error GetPod returned, which is not the timeout error; the
\* poll goes on to its sleep only after a fetch that succeeded.
C33_FailedFetchEndsThePoll ==
    [][\A p \in ClientProcs :
          (op[p] = "WaitForPodReady" /\ pc[p] = "w_get" /\ pc'[p] # pc[p]) =>
             \E r \in Fetches(p) :
                IF r.err # Nil
                THEN /\ ~InWait(pc'[p])
                     /\ wait'[p].err = r.err
                     /\ ~TimedOut(wait'[p].err)
                     /\ wait'[p].polls = wait[p].polls
                ELSE /\ wait'[p].got /\ wait'[p].seen = r.conds
                     /\ InWait(pc'[p]) => pc'[p] = "w_sleep" /\ ~PodIsReady(r.conds)
      ]_vars

\* A wait that had polled and slept, then got an error from GetPod and returned
\* it with time left before its deadline.
C33_Witness ==
    \E p \in ClientProcs :
        /\ op[p] = "WaitForPodReady" /\ pc[p] = "idle"
        /\ wait[p].polls > 0 /\ wait[p].got
        /\ wait[p].err # Nil /\ ~TimedOut(wait[p].err)
        /\ wait[p].err[1] = "failed to get pod " \o loc[p].pod \o " in namespace " \o
                            NsOr(loc[p].ns, DefaultNamespace)
        /\ wait[p].elapsed < wait[p].timeout

-----------------------------------------------------------------------------
\* The exec requests among the requests of a call, in the order they were sent.
IsExec(r) == r.call = "Exec"
Execs(p) == SelectSeq(trace[p], IsExec)

\* What a command prints when it is run in a pod with no script files.
OutputOf(words) == Shell(NoFiles, words).out

\* results is the outputs of the first n of the commands cmds, in order.
OutputsOfFirst(results, cmds, n) ==
    /\ Len(results) = n
    /\ \A i \in 1..n : results[i] = OutputOf(cmds[i])

\* C34: the exec requests of a CreateAndRunPod call are its commands in list
\* order, one per command, and only the last of them can have failed; the call
\* then returns the outputs of exactly the commands before the failed one with
\* the error; a call that returns no error has run every command and returns
\* one output per command in list order.
C34_CommandsInOrderStopAtFirstFailure ==
    \A p \in ExecProcs :
        op[p] \in {"CreateAndRunPod", "executeCode"} =>
           LET e == Execs(p)
               k == Len(e)
               cmds == loc[p].cmds
               failed == k > 0 /\ e[k].err # Nil
               returned == (pc[p] = "ex_done") \/ (pc[p] = "idle" /\ op[p] = "CreateAndRunPod")
           IN /\ k <= Len(cmds)
              /\ \A i \in 1..k : e[i].words = cmds[i] /\ (i < k => e[i].err = Nil)
              /\ failed => pc[p] # "carp_exec"
              /\ OutputsOfFirst(loc[p].results, cmds, IF failed THEN k - 1 ELSE k)
              /\ (returned /\ failed) =>
                    /\ ret[p].err = Wrap("command execution failed", e[k].err)
                    /\ OutputsOfFirst(ret[p].results, cmds, k - 1)
              /\ (returned /\ trace[p] # <<>> /\ ret[p].err = Nil) =>
                    /\ k = Len(cmds)
                    /\ OutputsOfFirst(ret[p].results, cmds, Len(cmds))

\* A call with two commands whose second command failed: it has returned the
\* output of the first and the error.
C34_Witness ==
    \E p \in RunCallers :
        /\ op[p] = "CreateAndRunPod" /\ pc[p] = "idle"
        /\ Len(loc[p].cmds) = 2 /\ Len(Execs(p)) = 2
        /\ Execs(p)[2].err # Nil
        /\ Len(ret[p].results) = 1 /\ ret[p].results[1] = <<"ok">>
        /\ ret[p].err # Nil /\ ret[p].err[1] = "command execution failed"

-----------------------------------------------------------------------------
(* A caller that passes labels, as an SDK user with the labels option or as  *)
(* a client of POST /api/v1/sandbox with labels in the request.              *)

CallerLabels == {[team |-> "x"], [app |-> "mine"], ("created-by" :> "me")}

LabelsCreateSandbox(p) ==
    /\ \E n \in SdkNames, ls \in CallerLabels :
          Begin(p, "CreateSandbox",
                [NoArg EXCEPT !.name = n, !.lang = "python", !.labels = ls,
                              !.opts = <<MapOpt("labels", ls)>>],
                "cs_lookup")
    /\ UNCHANGED <<pods, sandboxes, mu, hnd, destroyed, obs>>

LabelsCreateRequest(p) ==
    /\ k8sClient.started /\ ~k8sClient.nil
    /\ \E ls \in CallerLabels, t \in RestSeconds :
          Begin(p, "createSandboxHandler",
                [NoArg EXCEPT !.lang = "python", !.labels = ls, !.name = SandboxID(t)],
                "rc_bind")
    /\ UNCHANGED <<pods, sandboxes, mu, hnd, destroyed, obs>>

NextLabels ==
    \/ PodProgress
    \/ serverCmd
    \/ \E p \in SdkProcs : LabelsCreateSandbox(p)
    \/ \E p \in SdkProcs : CreateLookup(p)
    \/ \E p \in SdkProcs : CreateSubmit(p)
    \/ \E p \in SdkProcs : CreateReady(p)
    \/ \E p \in SdkProcs : LabelsCreateRequest(p)
    \/ \E p \in SdkProcs : executeInSandboxHandler(p, RestSandboxIDs)
    \/ \E p \in SdkProcs : destroySandboxHandler(p, RestSandboxIDs)
    \/ \E p \in SdkProcs : RestCreateBind(p)
    \/ \E p \in SdkProcs : RestCreateSubmit(p)
    \/ \E p \in SdkProcs : RestCreateReady(p)
    \/ \E p \in SdkProcs : WaitCheck(p)
    \/ \E p \in SdkProcs : WaitFetch(p)
    \/ \E p \in SdkProcs : WaitSleep(p)

SpecLabels == Init /\ [][NextLabels]_vars

\* The calls whose CreatePod the cluster accepted in the step being taken.
Submitting ==
    {p \in SdkProcs : /\ pc[p] \in {"cs_create", "rc_create"}
                   /\ trace'[p] # <<>> /\ trace'[p][1].err = Nil}

\* C35: the pod a CreateSandbox call or a create-sandbox request submits has
\* every label its caller passed, under the caller's key with the caller's
\* value, the keys app and created-by included.
C35_CallerLabelsReachThePod ==
    [][\A p \in Submitting :
          LET pod == pods'[trace'[p][1].key] IN
          \A k \in DOMAIN arg[p].labels :
              k \in DOMAIN pod.labels /\ pod.labels[k] = arg[p].labels[k]
      ]_vars

-----------------------------------------------------------------------------
(* pkg/sdk/sdk.go: the one-shot SDK.  lc.Code(code) on the LanguageContainer *)
(* of CreateSandbox(name, lang) calls impl.Run(name, image, code, opts...).  *)

OneShotLangs == {"python", "cobol"}
OneShotCodes == {<<>>, <<"true">>, <<"true", "false">>}

\* cmds = append(cmds, "sh -c '"+line+"'") for each line of code
OneShotCmds(code) == [i \in DOMAIN code |-> "sh -c '" \o code[i] \o "'"]

\* What Run returns.
OneShotReturn(p, out, err) ==
    /\ ret' = [ret EXCEPT ![p] = [NoRet EXCEPT !.err = err, !.out = out,
                                               !.res = IF err = Nil THEN Output(out) ELSE <<>>]]
    /\ pc' = [pc EXCEPT ![p] = "idle"]

\* s.CreateSandbox(name, lang) and then lc.Code(code)
OneShotCode(p) ==
    /\ \E n \in SdkNames, l \in OneShotLangs, c \in OneShotCodes :
          Begin(p, "Code", [NoArg EXCEPT !.name = n, !.lang = l, !.code = c], "os_lookup")
    /\ UNCHANGED <<pods, sandboxes, mu, hnd, destroyed, obs>>

\* CreateSandbox: the image; Run up to the client: namespace and pod name
OneShotLookup(p) ==
    /\ pc[p] = "os_lookup"
    /\ LET r == LanguageLookup(arg[p].lang) IN
       IF r.err # Nil
       THEN /\ OneShotReturn(p, <<>>, r.err)
            /\ UNCHANGED loc
       ELSE /\ loc' = [loc EXCEPT ![p].h = Handle(arg[p].name, arg[p].lang, r.image,
                                                  arg[p].opts, ""),
                                  ![p].ns = NamespaceOf(arg[p].opts),
                                  ![p].pod = "sandboxed-" \o arg[p].name]
            /\ pc' = [pc EXCEPT ![p] = "os_create"]
            /\ UNCHANGED ret
    /\ UNCHANGED <<pods, sandboxes, mu, op, arg, hnd, wait, trace, destroyed, obs>>

\* NewClient(namespace), client.CreatePod(pod), then
\* WaitForPodReady(podName, pod.Namespace, 120s) starts
OneShotCreate(p) ==
    /\ pc[p] = "os_create"
    /\ \E cf \in ClientFaults, fault \in BOOLEAN :
         LET client == NewClient(loc[p].ns, cf)
             spec == PodSpec(loc[p].pod, loc[p].ns, loc[p].h.image, SdkLabels(loc[p].h.opts))
             r == CreatePod(pods, client.c, spec, fault)
         IN IF client.err # Nil
            THEN /\ OneShotReturn(p, <<>>, client.err)
                 /\ UNCHANGED <<pods, trace, wait>>
            ELSE /\ pods' = r.pods
                 /\ trace' = [trace EXCEPT ![p] = Append(@, Req("CreatePod", r.key, <<>>, r.err))]
                 /\ IF r.err # Nil
                    THEN /\ OneShotReturn(p, <<>>, r.err)
                         /\ UNCHANGED wait
                    ELSE /\ wait' = [wait EXCEPT ![p] = [NoWait EXCEPT !.timeout = ReadyTimeout]]
                         /\ pc' = [pc EXCEPT ![p] = "w_check"]
                         /\ UNCHANGED ret
    /\ UNCHANGED <<sandboxes, mu, op, arg, hnd, loc, destroyed, obs>>

\* after WaitForPodReady: its error, or on to the exec
OneShotReady(p) ==
    /\ pc[p] = "os_ready"
    /\ IF wait[p].err # Nil
       THEN OneShotReturn(p, <<>>, wait[p].err)
       ELSE /\ pc' = [pc EXCEPT ![p] = "os_exec"]
            /\ UNCHANGED ret
    /\ UNCHANGED <<pods, sandboxes, mu, op, arg, hnd, loc, wait, trace, destroyed, obs>>

\* The end of Run, two round trips: client.ExecCommand(podName, pod.Namespace, cmds)
\* with its error returned at once; then, at the return of the output, the
\* deferred client.DeletePod(podName, pod.Namespace)
OneShotExec(p) ==
    /\ pc[p] \in {"os_exec", "os_defer"}
    /\ IF pc[p] = "os_exec"
       THEN \E fault \in ExecFaults :
              LET r == ExecCommand(pods, NewClient(loc[p].ns, "none").c, loc[p].pod,
                                   loc[p].ns, OneShotCmds(arg[p].code), fault)
              IN /\ pods' = r.pods
                 /\ trace' = [trace EXCEPT ![p] =
                        Append(@, Req("Exec", Key(loc[p].ns, loc[p].pod),
                                      OneShotCmds(arg[p].code), r.err))]
                 /\ IF r.err # Nil
                    THEN /\ OneShotReturn(p, <<>>, r.err)
                         /\ UNCHANGED loc
                    ELSE /\ loc' = [loc EXCEPT ![p].results = r.out]
                         /\ pc' = [pc EXCEPT ![p] = "os_defer"]
                         /\ UNCHANGED ret
       ELSE \E fault \in BOOLEAN :
              LET d == DeletePodWithOptions(pods, NewClient(loc[p].ns, "none").c, loc[p].pod,
                                            loc[p].ns, FALSE, fault)
              IN /\ pods' = d.pods
                 /\ trace' = [trace EXCEPT ![p] = Append(@, Req("DeletePod", d.key, <<>>, d.err))]
                 /\ OneShotReturn(p, loc[p].results, Nil)
                 /\ UNCHANGED loc
    /\ UNCHANGED <<sandboxes, mu, op, arg, hnd, wait, destroyed, obs>>

NextOneShot ==
    \/ PodProgress
    \/ \E p \in SdkProcs : OneShotCode(p)
    \/ \E p \in SdkProcs : OneShotLookup(p)
    \/ \E p \in SdkProcs : OneShotCreate(p)
    \/ \E p \in SdkProcs : WaitCheck(p)
    \/ \E p \in SdkProcs : WaitFetch(p)
    \/ \E p \in SdkProcs : WaitSleep(p)
    \/ \E p \in SdkProcs : OneShotReady(p)
    \/ \E p \in SdkProcs : OneShotExec(p)

SpecOneShot == Init /\ [][NextOneShot]_vars

\* C36: a one-shot Run whose CreatePod succeeded has, when it returns, issued a
\* delete for the pod it created, whether it succeeded, timed out waiting for
\* the pod or failed at its exec.
C36_OneShotRunLeavesNoPod ==
    \A p \in SdkProcs :
        (op[p] = "Code" /\ pc[p] = "idle" /\ trace[p] # <<>> /\ trace[p][1].err = Nil)
        => \E i \in DOMAIN trace[p] :
              trace[p][i].call = "DeletePod" /\ trace[p][i].key = trace[p][1].key

-----------------------------------------------------------------------------
\* The create-sandbox requests that have generated their sandbox ID and are
\* still being handled.
RestInFlight ==
    {p \in RestProcs : op[p] = "createSandboxHandler"
                          /\ pc[p] \in {"rc_create", "w_check", "w_get", "w_sleep", "rc_ready"}}

\* C37: two create-sandbox requests handled at the same time have different
\* sandbox IDs, and no request has its pod refused by the cluster because a pod
\* of that name exists already.
C37_RestSandboxIDsUnique ==
    /\ \A p, q \in RestInFlight : p # q => arg[p].name # arg[q].name
    /\ \A p \in RestProcs :
          (op[p] = "createSandboxHandler" /\ trace[p] # <<>>)
          => Cause(trace[p][1].err) # AlreadyExists(trace[p][1].key[2])

====
